---------------------------- MODULE Spec2Model ----------------------------
(***************************************************************************)
(* Memory objects, memory descriptors (MemoryBuilder), validators and the  *)
(* copy engine of the NeuralNetworks runtime, runtime/Memory.cpp.          *)
(*                                                                         *)
(* An optional value (std::optional) is a sequence of length 0 or 1.       *)
(* A float is a record [nan, v] where v counts tenths.                     *)
(***************************************************************************)
EXTENDS Integers, Sequences, FiniteSets, TLC

(***************************************************************************)
(* Bounds of the model.                                                    *)
(***************************************************************************)
MaxRoles == 2      \* roles registered on one descriptor
MaxAlloc == 2      \* memory objects created from descriptors in one run
MaxRank == 2       \* rank of the shapes passed to setDimensions
MaxDim == 2        \* extent of an axis of such a shape
MaxBursts == 2     \* burst consumers created in one run
MaxOpenFiles == 3  \* file descriptors the process may have open

(***************************************************************************)
(* Result codes and small helpers.                                         *)
(***************************************************************************)
NO_ERROR == "NO_ERROR"
BAD_DATA == "BAD_DATA"
BAD_STATE == "BAD_STATE"
OP_FAILED == "OP_FAILED"
OUT_OF_MEMORY == "OUT_OF_MEMORY"
UNMAPPABLE == "UNMAPPABLE"
UNAVAILABLE_DEVICE == "UNAVAILABLE_DEVICE"
UNEXPECTED_NULL == "UNEXPECTED_NULL"

INPUT == "INPUT"
OUTPUT == "OUTPUT"

Some(x) == <<x>>
None == <<>>
has_value(o) == Len(o) > 0
value(o) == o[1]

SeqToSet(s) == {s[i] : i \in 1..Len(s)}

(***************************************************************************)
(* Floats: comparisons with NaN are false.                                 *)
(***************************************************************************)
Float(n) == [nan |-> FALSE, v |-> n]
NaN == [nan |-> TRUE, v |-> 0]
FloatGT(a, b) == ~a.nan /\ ~b.nan /\ a.v > b.v
FloatLE(a, b) == ~a.nan /\ ~b.nan /\ a.v <= b.v

(***************************************************************************)
(* Operand types known to the TypeManager.                                 *)
(***************************************************************************)
TENSOR_FLOAT32 == "TENSOR_FLOAT32"
TENSOR_QUANT8_ASYMM == "TENSOR_QUANT8_ASYMM"
INT32 == "INT32"

isTensorType(type) == type \in {TENSOR_FLOAT32, TENSOR_QUANT8_ASYMM}

sizeOfElement(type) == IF type = TENSOR_QUANT8_ASYMM THEN 1 ELSE 4

RECURSIVE Product(_)
Product(s) == IF s = <<>> THEN 1 ELSE s[1] * Product(Tail(s))

\* Byte size of an operand of the given type and dimensions; 0 when a tensor
\* has unknown rank or an unknown axis.
getSizeOfData(type, dimensions) ==
    IF ~isTensorType(type) THEN sizeOfElement(type)
    ELSE IF dimensions = <<>> THEN 0
    ELSE sizeOfElement(type) * Product(dimensions)

(***************************************************************************)
(* Dimension combiner.                                                     *)
(***************************************************************************)
combineDimensions(lhs, rhs) ==
    IF rhs = <<>> THEN Some(lhs)
    ELSE IF lhs = <<>> THEN Some(rhs)
    ELSE IF Len(lhs) # Len(rhs) THEN None
    ELSE IF \E i \in 1..Len(lhs) : lhs[i] # 0 /\ rhs[i] # 0 /\ lhs[i] # rhs[i]
         THEN None
    ELSE Some([i \in 1..Len(lhs) |-> IF lhs[i] = 0 THEN rhs[i] ELSE lhs[i]])

(***************************************************************************)
(* The compilations the client holds.  Each has a model with input and     *)
(* output operands and an execution plan that expands a model input or     *)
(* output to the steps (prepared model, io type, index) using it.          *)
(***************************************************************************)
Operand(t, s, z, d) ==
    [type |-> t, scale |-> s, zeroPoint |-> z, extraParams |-> 0, dimensions |-> d]

Compilations == {"c1", "c2"}

\* pm1 runs on device d1, every other prepared model on device d2.
getDevice(preparedModel) == IF preparedModel = "pm1" THEN "d1" ELSE "d2"

ModelInputs(c) ==
    IF c = "c1"
    THEN << Operand(TENSOR_FLOAT32, 0, 0, <<1, 4, 4, 3>>),
            Operand(INT32, 0, 0, <<>>) >>
    ELSE << Operand(TENSOR_FLOAT32, 0, 0, <<>>),
            Operand(TENSOR_QUANT8_ASYMM, 1, 0, <<2, 2>>) >>

ModelOutputs(c) ==
    IF c = "c1"
    THEN << Operand(TENSOR_FLOAT32, 0, 0, <<0, 4, 4, 3>>) >>
    ELSE << Operand(TENSOR_FLOAT32, 0, 0, <<2, 4, 4, 3>>),
            Operand(TENSOR_QUANT8_ASYMM, 1, 1, <<2, 2>>) >>

inputCount(c) == Len(ModelInputs(c))
outputCount(c) == Len(ModelOutputs(c))
getInputOperand(c, index) == ModelInputs(c)[index + 1]
getOutputOperand(c, index) == ModelOutputs(c)[index + 1]

StepRole(pm, t, i) == [preparedModel |-> pm, type |-> t, index |-> i]

\* c1 is a simple plan on device d1; c2 is a compound plan: its input 0 is
\* consumed by two steps, its output 0 is a model input passed through.
forEachStepRoleOfInput(c, index) ==
    IF index >= inputCount(c) THEN [n |-> BAD_DATA, roles |-> <<>>]
    ELSE IF c = "c1" THEN [n |-> NO_ERROR, roles |-> <<StepRole("pm1", INPUT, index)>>]
    ELSE IF index = 0
         THEN [n |-> NO_ERROR,
               roles |-> <<StepRole("pm2", INPUT, 0), StepRole("pm3", INPUT, 1)>>]
    ELSE [n |-> NO_ERROR, roles |-> <<StepRole("pm2", INPUT, index)>>]

forEachStepRoleOfOutput(c, index) ==
    IF index >= outputCount(c) THEN [n |-> BAD_DATA, roles |-> <<>>]
    ELSE IF c = "c1" THEN [n |-> NO_ERROR, roles |-> <<StepRole("pm1", OUTPUT, index)>>]
    ELSE IF index = 0 THEN [n |-> NO_ERROR, roles |-> <<>>]
    ELSE [n |-> NO_ERROR, roles |-> <<StepRole("pm2", OUTPUT, index)>>]


(***************************************************************************)
(* MemoryBuilder: the memory descriptor under construction.                *)
(***************************************************************************)
NewMemoryBuilder ==
    [mFinished  |-> FALSE,
     mRoles     |-> {},
     mOperand   |-> None,
     mAllocator |-> "nullptr",
     mDesc      |-> [dimensions     |-> <<>>,
                     preparedModels |-> <<>>,
                     inputRoles     |-> <<>>,
                     outputRoles    |-> <<>>]]

\* Mutant: the finished flag is never consulted.
badState_Never(b) == FALSE

badState(b) == b.mFinished

CompilationRole(compilation, ioType, index) == <<compilation, ioType, index>>

\* Mutant: roles are told apart by io type and index only.
isDuplicateRole_IgnoresCompilation(b, compilation, ioType, index) ==
    \E r \in b.mRoles : r[2] = ioType /\ r[3] = index

isDuplicateRole(b, compilation, ioType, index) ==
    CompilationRole(compilation, ioType, index) \in b.mRoles

\* Mutant: operands are compared by type and scale only.
incompatibleOperand_TypeAndScaleOnly(mOperand, operand) ==
    /\ has_value(mOperand)
    /\ \/ operand.type # value(mOperand).type
       \/ operand.scale # value(mOperand).scale

incompatibleOperand(mOperand, operand) ==
    /\ has_value(mOperand)
    /\ \/ operand.type # value(mOperand).type
       \/ operand.scale # value(mOperand).scale
       \/ operand.zeroPoint # value(mOperand).zeroPoint
       \/ operand.extraParams # value(mOperand).extraParams

invalidFrequency(freq) == FloatGT(freq, Float(10)) \/ FloatLE(freq, Float(0))

\* mDesc.preparedModels.add: the index of the element, appended when new.
IndexOf(s, x) == CHOOSE i \in 1..Len(s) : s[i] = x
preparedModelsAdd(pms, pm) ==
    IF pm \in SeqToSet(pms)
    THEN [pms |-> pms, modelIndex |-> IndexOf(pms, pm) - 1]
    ELSE [pms |-> Append(pms, pm), modelIndex |-> Len(pms)]

BufferRole(m, i, f) == [modelIndex |-> m, ioIndex |-> i, frequency |-> f]

RECURSIVE recordBufferRoles(_, _, _)
recordBufferRoles(desc, roles, freq) ==
    IF roles = <<>> THEN desc
    ELSE LET r == Head(roles)
             added == preparedModelsAdd(desc.preparedModels, r.preparedModel)
             role == BufferRole(added.modelIndex, r.index, freq)
             next == IF r.type = INPUT
                     THEN [desc EXCEPT !.preparedModels = added.pms,
                                       !.inputRoles = Append(@, role)]
                     ELSE [desc EXCEPT !.preparedModels = added.pms,
                                       !.outputRoles = Append(@, role)]
         IN recordBufferRoles(next, Tail(roles), freq)

\* Mutant: the role is put into the role set before the frequency is checked.
addRole_RegistersBeforeFrequencyCheck(b, compilation, ioType, index, freq) ==
    LET stepRoles == IF ioType = INPUT
                     THEN forEachStepRoleOfInput(compilation, index)
                     ELSE forEachStepRoleOfOutput(compilation, index)
        count == IF ioType = INPUT THEN inputCount(compilation)
                 ELSE outputCount(compilation)
        operand == IF ioType = INPUT THEN getInputOperand(compilation, index)
                   ELSE getOutputOperand(compilation, index)
        combined == combineDimensions(b.mDesc.dimensions, operand.dimensions)
        registered == [b EXCEPT
                         !.mRoles = @ \cup {CompilationRole(compilation, ioType, index)}]
    IN  IF badState(b) THEN [n |-> BAD_STATE, b |-> b]
        ELSE IF isDuplicateRole(b, compilation, ioType, index)
             THEN [n |-> BAD_DATA, b |-> b]
        ELSE IF stepRoles.n # NO_ERROR THEN [n |-> BAD_DATA, b |-> b]
        ELSE IF index >= count THEN [n |-> BAD_DATA, b |-> b]
        ELSE IF incompatibleOperand(b.mOperand, operand) THEN [n |-> BAD_DATA, b |-> b]
        ELSE IF ~isTensorType(operand.type) /\ b.mDesc.dimensions # <<>>
             THEN [n |-> BAD_DATA, b |-> b]
        ELSE IF ~has_value(combined) THEN [n |-> BAD_DATA, b |-> b]
        ELSE IF invalidFrequency(freq) THEN [n |-> BAD_DATA, b |-> registered]
        ELSE [n |-> NO_ERROR,
              b |-> [b EXCEPT
                       !.mRoles = @ \cup {CompilationRole(compilation, ioType, index)},
                       !.mOperand = Some(operand),
                       !.mDesc = [recordBufferRoles(@, stepRoles.roles, freq)
                                    EXCEPT !.dimensions = value(combined)]]]

\* Mutant: a scalar role is accepted whatever dimensions were set before.
addRole_AcceptsScalarAfterDimensions(b, compilation, ioType, index, freq) ==
    LET stepRoles == IF ioType = INPUT
                     THEN forEachStepRoleOfInput(compilation, index)
                     ELSE forEachStepRoleOfOutput(compilation, index)
        count == IF ioType = INPUT THEN inputCount(compilation)
                 ELSE outputCount(compilation)
        operand == IF ioType = INPUT THEN getInputOperand(compilation, index)
                   ELSE getOutputOperand(compilation, index)
        combined == combineDimensions(b.mDesc.dimensions, operand.dimensions)
    IN  IF badState(b) THEN [n |-> BAD_STATE, b |-> b]
        ELSE IF isDuplicateRole(b, compilation, ioType, index)
             THEN [n |-> BAD_DATA, b |-> b]
        ELSE IF stepRoles.n # NO_ERROR THEN [n |-> BAD_DATA, b |-> b]
        ELSE IF index >= count THEN [n |-> BAD_DATA, b |-> b]
        ELSE IF incompatibleOperand(b.mOperand, operand) THEN [n |-> BAD_DATA, b |-> b]
        ELSE IF ~has_value(combined) THEN [n |-> BAD_DATA, b |-> b]
        ELSE IF invalidFrequency(freq) THEN [n |-> BAD_DATA, b |-> b]
        ELSE [n |-> NO_ERROR,
              b |-> [b EXCEPT
                       !.mRoles = @ \cup {CompilationRole(compilation, ioType, index)},
                       !.mOperand = Some(operand),
                       !.mDesc = [recordBufferRoles(@, stepRoles.roles, freq)
                                    EXCEPT !.dimensions = value(combined)]]]

\* MemoryBuilder::addRole.
addRole(b, compilation, ioType, index, freq) ==
    LET stepRoles == IF ioType = INPUT
                     THEN forEachStepRoleOfInput(compilation, index)
                     ELSE forEachStepRoleOfOutput(compilation, index)
        count == IF ioType = INPUT THEN inputCount(compilation)
                 ELSE outputCount(compilation)
        operand == IF ioType = INPUT THEN getInputOperand(compilation, index)
                   ELSE getOutputOperand(compilation, index)
        combined == combineDimensions(b.mDesc.dimensions, operand.dimensions)
    IN  IF badState(b) THEN [n |-> BAD_STATE, b |-> b]
        ELSE IF isDuplicateRole(b, compilation, ioType, index)
             THEN [n |-> BAD_DATA, b |-> b]
        ELSE IF stepRoles.n # NO_ERROR THEN [n |-> BAD_DATA, b |-> b]
        ELSE IF index >= count THEN [n |-> BAD_DATA, b |-> b]
        ELSE IF incompatibleOperand(b.mOperand, operand) THEN [n |-> BAD_DATA, b |-> b]
        ELSE IF ~isTensorType(operand.type) /\ b.mDesc.dimensions # <<>>
             THEN [n |-> BAD_DATA, b |-> b]
        ELSE IF ~has_value(combined) THEN [n |-> BAD_DATA, b |-> b]
        ELSE IF invalidFrequency(freq) THEN [n |-> BAD_DATA, b |-> b]
        ELSE [n |-> NO_ERROR,
              b |-> [b EXCEPT
                       !.mRoles = @ \cup {CompilationRole(compilation, ioType, index)},
                       !.mOperand = Some(operand),
                       !.mDesc = [recordBufferRoles(@, stepRoles.roles, freq)
                                    EXCEPT !.dimensions = value(combined)]]]

\* Mutant: the given dimensions replace the accumulated ones.
setDimensions_Overwrites(b, dimensions) ==
    LET combined == combineDimensions(b.mDesc.dimensions, dimensions)
    IN  IF badState(b) THEN [n |-> BAD_STATE, b |-> b]
        ELSE IF /\ has_value(b.mOperand)
                /\ ~isTensorType(value(b.mOperand).type)
                /\ dimensions # <<>>
             THEN [n |-> BAD_DATA, b |-> b]
        ELSE IF ~has_value(combined) THEN [n |-> BAD_DATA, b |-> b]
        ELSE [n |-> NO_ERROR, b |-> [b EXCEPT !.mDesc.dimensions = dimensions]]

\* Mutant: the accumulated dimensions are kept as they were.
setDimensions_KeepsAccumulated(b, dimensions) ==
    LET combined == combineDimensions(b.mDesc.dimensions, dimensions)
    IN  IF badState(b) THEN [n |-> BAD_STATE, b |-> b]
        ELSE IF /\ has_value(b.mOperand)
                /\ ~isTensorType(value(b.mOperand).type)
                /\ dimensions # <<>>
             THEN [n |-> BAD_DATA, b |-> b]
        ELSE IF ~has_value(combined) THEN [n |-> BAD_DATA, b |-> b]
        ELSE [n |-> NO_ERROR, b |-> b]

\* Mutant: shapes that do not combine are accepted and ignored.
setDimensions_AcceptsAnyShape(b, dimensions) ==
    LET combined == combineDimensions(b.mDesc.dimensions, dimensions)
    IN  IF badState(b) THEN [n |-> BAD_STATE, b |-> b]
        ELSE IF /\ has_value(b.mOperand)
                /\ ~isTensorType(value(b.mOperand).type)
                /\ dimensions # <<>>
             THEN [n |-> BAD_DATA, b |-> b]
        ELSE IF ~has_value(combined) THEN [n |-> NO_ERROR, b |-> b]
        ELSE [n |-> NO_ERROR, b |-> [b EXCEPT !.mDesc.dimensions = value(combined)]]

\* Mutant: dimensions are accepted for a scalar operand as for a tensor.
setDimensions_IgnoresScalar(b, dimensions) ==
    LET combined == combineDimensions(b.mDesc.dimensions, dimensions)
    IN  IF badState(b) THEN [n |-> BAD_STATE, b |-> b]
        ELSE IF ~has_value(combined) THEN [n |-> BAD_DATA, b |-> b]
        ELSE [n |-> NO_ERROR, b |-> [b EXCEPT !.mDesc.dimensions = value(combined)]]

\* MemoryBuilder::setDimensions.
setDimensions(b, dimensions) ==
    LET combined == combineDimensions(b.mDesc.dimensions, dimensions)
    IN  IF badState(b) THEN [n |-> BAD_STATE, b |-> b]
        ELSE IF /\ has_value(b.mOperand)
                /\ ~isTensorType(value(b.mOperand).type)
                /\ dimensions # <<>>
             THEN [n |-> BAD_DATA, b |-> b]
        ELSE IF ~has_value(combined) THEN [n |-> BAD_DATA, b |-> b]
        ELSE [n |-> NO_ERROR, b |-> [b EXCEPT !.mDesc.dimensions = value(combined)]]

\* The loop of selectDeviceMemoryAllocator; "CHECK" is the failed assertion
\* CHECK(allocator != nullptr) after a loop that found no prepared model.
RECURSIVE selectLoop(_, _)
selectLoop(pms, allocator) ==
    IF pms = <<>> THEN (IF allocator = "nullptr" THEN "CHECK" ELSE allocator)
    ELSE LET device == getDevice(Head(pms))
         IN IF allocator = "nullptr" THEN selectLoop(Tail(pms), device)
            ELSE IF allocator # device THEN "nullptr"
            ELSE selectLoop(Tail(pms), allocator)

\* Mutant: the first prepared model's device is selected whatever the others.
selectDeviceMemoryAllocator_FirstDevice(desc) ==
    IF desc.preparedModels = <<>> THEN "CHECK" ELSE getDevice(Head(desc.preparedModels))

selectDeviceMemoryAllocator(desc) == selectLoop(desc.preparedModels, "nullptr")

\* Mutant: the descriptor is marked finished before the role set is checked.
finish_MarksFinishedFirst(b) ==
    IF badState(b) THEN [n |-> BAD_STATE, b |-> b, aborted |-> FALSE]
    ELSE IF b.mRoles = {}
         THEN [n |-> BAD_DATA, b |-> [b EXCEPT !.mFinished = TRUE], aborted |-> FALSE]
    ELSE IF selectDeviceMemoryAllocator(b.mDesc) = "CHECK"
         THEN [n |-> NO_ERROR, b |-> b, aborted |-> TRUE]
    ELSE [n |-> NO_ERROR, aborted |-> FALSE,
          b |-> [b EXCEPT !.mAllocator = selectDeviceMemoryAllocator(b.mDesc),
                          !.mFinished = TRUE]]

\* aborted: the process died on a failed CHECK.
finish(b) ==
    IF badState(b) THEN [n |-> BAD_STATE, b |-> b, aborted |-> FALSE]
    ELSE IF b.mRoles = {} THEN [n |-> BAD_DATA, b |-> b, aborted |-> FALSE]
    ELSE IF ~has_value(b.mOperand) THEN [n |-> NO_ERROR, b |-> b, aborted |-> TRUE]
    ELSE IF selectDeviceMemoryAllocator(b.mDesc) = "CHECK"
         THEN [n |-> NO_ERROR, b |-> b, aborted |-> TRUE]
    ELSE [n |-> NO_ERROR, aborted |-> FALSE,
          b |-> [b EXCEPT !.mAllocator = selectDeviceMemoryAllocator(b.mDesc),
                          !.mFinished = TRUE]]

(***************************************************************************)
(* Memory objects.  A memory object has a backing (a hidl_memory of some   *)
(* byte size, or a driver IBuffer with a token) and one validator.         *)
(***************************************************************************)
Memory(validator, kSize, hidlValid, hidlSize, hasIBuffer, roles, operand, dimensions) ==
    [validator          |-> validator,
     kSize              |-> kSize,
     hidlValid          |-> hidlValid,
     hidlSize           |-> hidlSize,
     hasIBuffer         |-> hasIBuffer,
     kCompilationRoles  |-> roles,
     kOperand           |-> operand,
     kInitialDimensions |-> dimensions,
     mUpdatedDimensions |-> dimensions,
     mInitialized       |-> FALSE,
     handle             |-> None]

\* Memory::Memory(hidl_memory): a host segment with the default sized validator.
MemoryFromHidl(size) == Memory("Sized", size, TRUE, size, FALSE, {}, None, <<>>)

\* MemoryAHWB::create for a buffer whose format is not BLOB.
MemoryAHWBNonBlob == Memory("NonBlob", 0, TRUE, 0, FALSE, {}, None, <<>>)

\* MemoryFromDevice: a driver buffer; it has no validator until one is set.
MemoryFromDevice == Memory("None", 0, FALSE, 0, TRUE, {}, None, <<>>)

\* A size_t of a 64-bit build, as its upper and lower 32 bits.
SizeT(hi, lo) == [hi |-> hi, lo |-> lo]

\* The conversion of a 64-bit size to the uint32_t parameter of
\* SizedMemoryValidator's constructor keeps the lower 32 bits.
ToUint32(size) == size.lo

\* The descriptor table of the process: every descriptor is closed, owned
\* by the client, owned by a memory object, or open and owned by nobody.
FileDescriptors == 0..(MaxOpenFiles - 1)
LowestClosed(table) ==
    CHOOSE fd \in FileDescriptors :
        /\ table[fd] = "closed"
        /\ \A other \in FileDescriptors : table[other] = "closed" => fd <= other

\* dup(fd): -1 when fd is not open or the table is full, the lowest closed
\* descriptor otherwise.
dup(table, fd) ==
    IF fd \notin FileDescriptors \/ table[fd] = "closed" THEN -1
    ELSE IF \A other \in FileDescriptors : table[other] # "closed" THEN -1
    ELSE LowestClosed(table)

\* MemoryFd::create.  env.handle tells whether native_handle_create
\* succeeds; the result carries the descriptor table as the call leaves it.
MemoryFdCreate(table, size, prot, fd, offset, env) ==
    LET dupfd == dup(table, fd)
        duplicated == [table EXCEPT ![dupfd] = "unowned"]
    IN  IF size = SizeT(0, 0) \/ fd < 0
        THEN [n |-> BAD_DATA, memory |-> None, table |-> table]
        ELSE IF dupfd = -1 THEN [n |-> UNEXPECTED_NULL, memory |-> None, table |-> table]
        ELSE IF ~env.handle
             THEN [n |-> UNEXPECTED_NULL, memory |-> None, table |-> duplicated]
        ELSE [n |-> NO_ERROR,
              table |-> [table EXCEPT ![dupfd] = "object"],
              memory |-> Some([Memory("Sized", ToUint32(size), TRUE, size, FALSE,
                                      {}, None, <<>>)
                               EXCEPT !.handle = Some([fd |-> dupfd, prot |-> prot,
                                                       offset |-> offset])])]

\* AHardwareBuffer_describe: the description of a hardware buffer.
BufferDesc(format, width, height) == [format |-> format, width |-> width, height |-> height]
AHARDWAREBUFFER_FORMAT_BLOB == "BLOB"

\* Mutant: every hardware buffer gets the sized validator of its width.
MemoryAHWBCreate_AlwaysSized(bufferDesc) ==
    [n |-> NO_ERROR,
     memory |-> Some(Memory("Sized", bufferDesc.width, TRUE, bufferDesc.width, FALSE,
                            {}, None, <<>>))]

\* MemoryAHWB::create.
MemoryAHWBCreate(bufferDesc) ==
    [n |-> NO_ERROR,
     memory |-> Some(IF bufferDesc.format = AHARDWAREBUFFER_FORMAT_BLOB
                     THEN Memory("Sized", bufferDesc.width, TRUE, bufferDesc.width, FALSE,
                                 {}, None, <<>>)
                     ELSE MemoryAHWBNonBlob)]

\* Mutant: the new validator reports initialized from the start.
setDeviceMemoryValidator_StartsInitialized(m, roles, operand, dimensions) ==
    [m EXCEPT !.validator = "Device",
              !.kCompilationRoles = roles,
              !.kOperand = Some(operand),
              !.kInitialDimensions = dimensions,
              !.mUpdatedDimensions = dimensions,
              !.mInitialized = TRUE]

\* DeviceMemoryValidator's constructor, installed by Memory::setValidator.
setDeviceMemoryValidator(m, roles, operand, dimensions) ==
    [m EXCEPT !.validator = "Device",
              !.kCompilationRoles = roles,
              !.kOperand = Some(operand),
              !.kInitialDimensions = dimensions,
              !.mUpdatedDimensions = dimensions,
              !.mInitialized = FALSE]

(***************************************************************************)
(* Validators.                                                             *)
(***************************************************************************)
Metadata(logicalSize, dimensions, operand) ==
    [logicalSize |-> logicalSize, dimensions |-> dimensions, operand |-> operand]

\* The defaults of MemoryValidatorBase, kept by the sized and non-BLOB
\* validators: such a memory has no uninitialized state.
BaseIsInitialized(m) == TRUE
BaseSetInitialized(m, initialized) == m

DeviceIsInitialized(m) == m.mInitialized
\* Mutant: the flag is set by a success and never cleared.
DeviceSetInitialized_NeverCleared(m, initialized) ==
    [m EXCEPT !.mInitialized = @ \/ initialized]

DeviceSetInitialized(m, initialized) == [m EXCEPT !.mInitialized = initialized]

isInitialized(m) ==
    IF m.validator = "Device" THEN DeviceIsInitialized(m) ELSE BaseIsInitialized(m)

setInitialized(m, initialized) ==
    IF m.validator = "Device" THEN DeviceSetInitialized(m, initialized)
    ELSE BaseSetInitialized(m, initialized)

\* uint32_t values are kept as two 16-bit halves, so that sums wrap at 2^32
\* as they do in the code.
Half == 65536
U32(hi, lo) == [hi |-> hi, lo |-> lo]
ToU32(n) == U32(n \div Half, n % Half)
U32Add(a, b) ==
    U32((a.hi + b.hi + ((a.lo + b.lo) \div Half)) % Half, (a.lo + b.lo) % Half)
U32LE(a, b) == a.hi < b.hi \/ (a.hi = b.hi /\ a.lo <= b.lo)

\* Mutant: only the end of the window is checked.
SizedValidate_AllowsImpliedSize(m, offset, length) ==
    U32LE(U32Add(offset, length), ToU32(m.kSize))

\* SizedMemoryValidator::validate.
SizedValidate(m, offset, length) ==
    /\ U32LE(U32Add(offset, length), ToU32(m.kSize))
    /\ offset # ToU32(0) \/ length # ToU32(0)

\* Mutant: the window is checked, the kind of use is not.
NonBlobValidate_AnyUse(compilation, offset, length) ==
    offset = ToU32(0) /\ length = ToU32(0)

\* AHardwareBufferNonBlobValidator::validate; a null compilation is "nullptr".
NonBlobValidate(compilation, offset, length) ==
    /\ compilation # "nullptr"
    /\ offset = ToU32(0) /\ length = ToU32(0)

\* Mutant: the role is looked up by io type and index only.
DeviceValidate_AnyCompilation(m, compilation, ioType, index, type, offset, length) ==
    /\ \E r \in m.kCompilationRoles : r[2] = ioType /\ r[3] = index
    /\ offset = ToU32(0) /\ length = ToU32(0)
    /\ has_value(type)
       => /\ isTensorType(value(m.kOperand).type) \/ Len(value(type)) = 0
          /\ has_value(combineDimensions(value(type), m.kInitialDimensions))

\* DeviceMemoryValidator::validate; type is the optional shape the caller
\* supplies (ANeuralNetworksOperandType's dimensions).
DeviceValidate(m, compilation, ioType, index, type, offset, length) ==
    /\ CompilationRole(compilation, ioType, index) \in m.kCompilationRoles
    /\ offset = ToU32(0) /\ length = ToU32(0)
    /\ has_value(type)
       => /\ isTensorType(value(m.kOperand).type) \/ Len(value(type)) = 0
          /\ has_value(combineDimensions(value(type), m.kInitialDimensions))

validate(m, compilation, ioType, index, type, offset, length) ==
    CASE m.validator = "Sized" -> SizedValidate(m, offset, length)
      [] m.validator = "Device" ->
            DeviceValidate(m, compilation, ioType, index, type, offset, length)
      [] OTHER -> NonBlobValidate(compilation, offset, length)

\* Mutant: the dimensions need only combine with the resolved ones.
DeviceValidateInputDimensions_Combines(m, dimensions) ==
    m.mInitialized /\ has_value(combineDimensions(dimensions, m.mUpdatedDimensions))

\* DeviceMemoryValidator::validateInputDimensions.
DeviceValidateInputDimensions(m, dimensions) ==
    m.mInitialized /\ dimensions = m.mUpdatedDimensions

SizedGetMetadata(m) == Metadata(m.kSize, <<>>, None)
NonBlobGetMetadata(m) == Metadata(0, <<>>, None)
DeviceGetMetadata(m) ==
    Metadata(getSizeOfData(value(m.kOperand).type, m.mUpdatedDimensions),
             m.mUpdatedDimensions, m.kOperand)

getMetadata(m) ==
    CASE m.validator = "Sized" -> SizedGetMetadata(m)
      [] m.validator = "Device" -> DeviceGetMetadata(m)
      [] OTHER -> NonBlobGetMetadata(m)

\* CHECK(mInitialized) in DeviceMemoryValidator::getMetadata.
getMetadataAborts(m) == m.validator = "Device" /\ ~m.mInitialized

\* Mutant: the sized validator accepts every metadata.
SizedUpdateMetadata_AcceptsAll(m, metadata) == [ok |-> TRUE, m |-> m]

\* SizedMemoryValidator::updateMetadata.
SizedUpdateMetadata(m, metadata) ==
    [ok |-> metadata.logicalSize = 0 \/ metadata.logicalSize = m.kSize, m |-> m]

NonBlobUpdateMetadata(m, metadata) == [ok |-> TRUE, m |-> m]

\* Mutant: of the incoming operand only the type is compared.
DeviceUpdateMetadata_TypeOnly(m, metadata) ==
    LET kOperand == value(m.kOperand)
        combined == combineDimensions(metadata.dimensions, m.kInitialDimensions)
    IN  IF has_value(metadata.operand) /\ value(metadata.operand).type # kOperand.type
        THEN [ok |-> FALSE, m |-> m]
        ELSE IF ~(metadata.dimensions = <<>> \/ isTensorType(kOperand.type))
             THEN [ok |-> FALSE, m |-> m]
        ELSE IF ~has_value(combined) THEN [ok |-> FALSE, m |-> m]
        ELSE IF ~(\/ metadata.logicalSize = 0
                  \/ metadata.logicalSize = getSizeOfData(kOperand.type, value(combined)))
             THEN [ok |-> FALSE, m |-> m]
        ELSE [ok |-> TRUE, m |-> [m EXCEPT !.mUpdatedDimensions = value(combined)]]

\* Mutant: the resolved dimensions become the dimensions of the incoming
\* metadata, without the dimensions fixed at allocation.
DeviceUpdateMetadata_StoresIncoming(m, metadata) ==
    LET kOperand == value(m.kOperand)
        combined == combineDimensions(metadata.dimensions, m.kInitialDimensions)
    IN  IF ~(\/ ~has_value(metadata.operand)
             \/ /\ value(metadata.operand).type = kOperand.type
                /\ value(metadata.operand).scale = kOperand.scale
                /\ value(metadata.operand).zeroPoint = kOperand.zeroPoint
                /\ value(metadata.operand).extraParams = kOperand.extraParams)
        THEN [ok |-> FALSE, m |-> m]
        ELSE IF ~(metadata.dimensions = <<>> \/ isTensorType(kOperand.type))
             THEN [ok |-> FALSE, m |-> m]
        ELSE IF ~has_value(combined) THEN [ok |-> FALSE, m |-> m]
        ELSE IF ~(\/ metadata.logicalSize = 0
                  \/ metadata.logicalSize = getSizeOfData(kOperand.type, value(combined)))
             THEN [ok |-> FALSE, m |-> m]
        ELSE [ok |-> TRUE, m |-> [m EXCEPT !.mUpdatedDimensions = metadata.dimensions]]

\* DeviceMemoryValidator::updateMetadata.
DeviceUpdateMetadata(m, metadata) ==
    LET kOperand == value(m.kOperand)
        combined == combineDimensions(metadata.dimensions, m.kInitialDimensions)
    IN  IF ~(\/ ~has_value(metadata.operand)
             \/ /\ value(metadata.operand).type = kOperand.type
                /\ value(metadata.operand).scale = kOperand.scale
                /\ value(metadata.operand).zeroPoint = kOperand.zeroPoint
                /\ value(metadata.operand).extraParams = kOperand.extraParams)
        THEN [ok |-> FALSE, m |-> m]
        ELSE IF ~(metadata.dimensions = <<>> \/ isTensorType(kOperand.type))
             THEN [ok |-> FALSE, m |-> m]
        ELSE IF ~has_value(combined) THEN [ok |-> FALSE, m |-> m]
        ELSE IF ~(\/ metadata.logicalSize = 0
                  \/ metadata.logicalSize = getSizeOfData(kOperand.type, value(combined)))
             THEN [ok |-> FALSE, m |-> m]
        ELSE [ok |-> TRUE, m |-> [m EXCEPT !.mUpdatedDimensions = value(combined)]]

updateMetadata(m, metadata) ==
    CASE m.validator = "Sized" -> SizedUpdateMetadata(m, metadata)
      [] m.validator = "Device" -> DeviceUpdateMetadata(m, metadata)
      [] OTHER -> NonBlobUpdateMetadata(m, metadata)

(***************************************************************************)
(* The copy engine.  Every external call a handler makes is logged, in     *)
(* order, as a record [f, arg].  The outcomes of mapping, of the temporary *)
(* allocation and of the driver transfers are chosen by the environment.   *)
(***************************************************************************)
Call(f, arg) == [f |-> f, arg |-> arg]

\* What IBuffer::copyTo / copyFrom can return: a transport error ("DEAD") or
\* an ErrorStatus.
DriverReturns == {"DEAD", "NONE", "GENERAL_FAILURE", "DEVICE_UNAVAILABLE"}

convertErrorStatusToResultCode(status) ==
    CASE status = "NONE" -> NO_ERROR
      [] status = "DEVICE_UNAVAILABLE" -> UNAVAILABLE_DEVICE
      [] OTHER -> OP_FAILED

\* The environments that matter for a pair of backings: a handler stops at
\* its first failing step, so at most one step fails.
CopyEnvOk == [map |-> TRUE, alloc |-> TRUE, copyTo |-> "NONE", copyFrom |-> "NONE"]
CopyToEnvs == {[CopyEnvOk EXCEPT !.copyTo = x] : x \in DriverReturns}
CopyFromEnvs == {[CopyEnvOk EXCEPT !.copyFrom = x] : x \in DriverReturns}
CopyEnvs(src, dst) ==
    IF src.hasIBuffer /\ dst.hasIBuffer
    THEN {[CopyEnvOk EXCEPT !.alloc = FALSE]} \cup CopyToEnvs \cup CopyFromEnvs
    ELSE IF src.hidlValid /\ dst.hidlValid THEN {CopyEnvOk, [CopyEnvOk EXCEPT !.map = FALSE]}
    ELSE IF src.hidlValid /\ dst.hasIBuffer THEN CopyFromEnvs
    ELSE CopyToEnvs

\* Mutant: the sizes of the two segments are not compared; the destination's
\* size is the number of bytes copied.
copyHidlMemories_NoSizeCheck(src, dst, env) ==
    IF ~env.map
    THEN [n |-> UNMAPPABLE, calls |-> <<Call("createFromHidlMemory", <<>>)>>]
    ELSE [n |-> NO_ERROR,
          calls |-> <<Call("createFromHidlMemory", <<>>),
                      Call("std::copy", <<dst.hidlSize>>),
                      Call("flush", <<>>)>>]

\* copyHidlMemories: both objects are host segments.
copyHidlMemories(src, dst, env) ==
    IF src.hidlSize # dst.hidlSize THEN [n |-> BAD_DATA, calls |-> <<>>]
    ELSE IF ~env.map
         THEN [n |-> UNMAPPABLE, calls |-> <<Call("createFromHidlMemory", <<>>)>>]
    ELSE [n |-> NO_ERROR,
          calls |-> <<Call("createFromHidlMemory", <<>>),
                      Call("std::copy", <<src.hidlSize>>),
                      Call("flush", <<>>)>>]

copyIBufferToHidlMemory(env) ==
    [n |-> IF env.copyTo = "DEAD" THEN OP_FAILED
           ELSE convertErrorStatusToResultCode(env.copyTo),
     calls |-> <<Call("copyTo", <<>>)>>]

copyHidlMemoryToIBuffer(dimensions, env) ==
    [n |-> IF env.copyFrom = "DEAD" THEN OP_FAILED
           ELSE convertErrorStatusToResultCode(env.copyFrom),
     calls |-> <<Call("copyFrom", dimensions)>>]

\* Mutant: a failed temporary allocation is reported as a failed operation.
copyIBuffers_AllocFailureIsOpFailed(srcMetadata, env) ==
    LET alloc == <<Call("allocateSharedMemory", <<srcMetadata.logicalSize>>)>>
        to == copyIBufferToHidlMemory(env)
        from == copyHidlMemoryToIBuffer(srcMetadata.dimensions, env)
    IN  IF ~env.alloc THEN [n |-> OP_FAILED, calls |-> alloc]
        ELSE IF to.n # NO_ERROR THEN [n |-> to.n, calls |-> alloc \o to.calls]
        ELSE IF from.n # NO_ERROR
             THEN [n |-> from.n, calls |-> alloc \o to.calls \o from.calls]
        ELSE [n |-> NO_ERROR, calls |-> alloc \o to.calls \o from.calls]

\* Mutant: the second transfer is attempted even when the first one failed.
copyIBuffers_TransfersRegardless(srcMetadata, env) ==
    LET alloc == <<Call("allocateSharedMemory", <<srcMetadata.logicalSize>>)>>
        to == copyIBufferToHidlMemory(env)
        from == copyHidlMemoryToIBuffer(srcMetadata.dimensions, env)
    IN  IF ~env.alloc THEN [n |-> OUT_OF_MEMORY, calls |-> alloc]
        ELSE IF to.n # NO_ERROR
             THEN [n |-> to.n, calls |-> alloc \o to.calls \o from.calls]
        ELSE IF from.n # NO_ERROR
             THEN [n |-> from.n, calls |-> alloc \o to.calls \o from.calls]
        ELSE [n |-> NO_ERROR, calls |-> alloc \o to.calls \o from.calls]

\* copyIBuffers.
copyIBuffers(srcMetadata, env) ==
    LET alloc == <<Call("allocateSharedMemory", <<srcMetadata.logicalSize>>)>>
        to == copyIBufferToHidlMemory(env)
        from == copyHidlMemoryToIBuffer(srcMetadata.dimensions, env)
    IN  IF ~env.alloc THEN [n |-> OUT_OF_MEMORY, calls |-> alloc]
        ELSE IF to.n # NO_ERROR THEN [n |-> to.n, calls |-> alloc \o to.calls]
        ELSE IF from.n # NO_ERROR
             THEN [n |-> from.n, calls |-> alloc \o to.calls \o from.calls]
        ELSE [n |-> NO_ERROR, calls |-> alloc \o to.calls \o from.calls]

\* Mutant: the source's initialized flag is checked after the metadata update.
copyInternal_ChecksSourceLast(s, d, src, dst, env) ==
    LET srcMetadata == getMetadata(src)
        updated == updateMetadata(dst, srcMetadata)
        pre == <<Call("getMetadata", <<>>), Call("updateMetadata", <<>>),
                 Call("isInitialized", <<>>)>>
    IN  IF s = d THEN [n |-> NO_ERROR, dst |-> dst, calls |-> <<>>, aborted |-> FALSE]
        ELSE IF getMetadataAborts(src)
             THEN [n |-> NO_ERROR, dst |-> dst, aborted |-> TRUE,
                   calls |-> SubSeq(pre, 1, 1)]
        ELSE IF ~updated.ok
             THEN [n |-> BAD_DATA, dst |-> dst, aborted |-> FALSE,
                   calls |-> SubSeq(pre, 1, 2)]
        ELSE [n |-> BAD_DATA, dst |-> updated.m, aborted |-> FALSE, calls |-> pre]

\* Mutant: the driver is handed the destination's resolved dimensions.
copyInternal_PassesDestinationShape(s, d, src, dst, env) ==
    LET srcMetadata == getMetadata(src)
        updated == updateMetadata(dst, srcMetadata)
        dstMetadata == Metadata(srcMetadata.logicalSize, updated.m.mUpdatedDimensions,
                                srcMetadata.operand)
        pre == <<Call("isInitialized", <<>>), Call("getMetadata", <<>>),
                 Call("updateMetadata", <<>>)>>
        transfer ==
            IF src.hasIBuffer /\ dst.hasIBuffer THEN copyIBuffers(dstMetadata, env)
            ELSE IF src.hidlValid /\ dst.hidlValid THEN copyHidlMemories(src, dst, env)
            ELSE IF src.hidlValid /\ dst.hasIBuffer
                 THEN copyHidlMemoryToIBuffer(dstMetadata.dimensions, env)
            ELSE IF src.hasIBuffer /\ dst.hidlValid THEN copyIBufferToHidlMemory(env)
            ELSE [n |-> OP_FAILED, calls |-> <<>>]
    IN  IF s = d THEN [n |-> NO_ERROR, dst |-> dst, calls |-> <<>>, aborted |-> FALSE]
        ELSE IF ~isInitialized(src)
             THEN [n |-> BAD_DATA, dst |-> dst, aborted |-> FALSE,
                   calls |-> <<Call("isInitialized", <<>>)>>]
        ELSE IF getMetadataAborts(src)
             THEN [n |-> NO_ERROR, dst |-> dst, aborted |-> TRUE,
                   calls |-> SubSeq(pre, 1, 2)]
        ELSE IF ~updated.ok
             THEN [n |-> BAD_DATA, dst |-> dst, aborted |-> FALSE, calls |-> pre]
        ELSE [n |-> transfer.n, dst |-> updated.m, aborted |-> FALSE,
              calls |-> pre \o transfer.calls]

\* src and dst are the two objects, s and d their identities (addresses).
\* The result carries the destination as left by updateMetadata.
copyInternal(s, d, src, dst, env) ==
    LET srcMetadata == getMetadata(src)
        updated == updateMetadata(dst, srcMetadata)
        pre == <<Call("isInitialized", <<>>), Call("getMetadata", <<>>),
                 Call("updateMetadata", <<>>)>>
        transfer ==
            IF src.hasIBuffer /\ dst.hasIBuffer THEN copyIBuffers(srcMetadata, env)
            ELSE IF src.hidlValid /\ dst.hidlValid THEN copyHidlMemories(src, dst, env)
            ELSE IF src.hidlValid /\ dst.hasIBuffer
                 THEN copyHidlMemoryToIBuffer(srcMetadata.dimensions, env)
            ELSE IF src.hasIBuffer /\ dst.hidlValid THEN copyIBufferToHidlMemory(env)
            ELSE [n |-> OP_FAILED, calls |-> <<>>]
    IN  IF s = d THEN [n |-> NO_ERROR, dst |-> dst, calls |-> <<>>, aborted |-> FALSE]
        ELSE IF ~isInitialized(src)
             THEN [n |-> BAD_DATA, dst |-> dst, aborted |-> FALSE,
                   calls |-> <<Call("isInitialized", <<>>)>>]
        ELSE IF getMetadataAborts(src)
             THEN [n |-> NO_ERROR, dst |-> dst, aborted |-> TRUE,
                   calls |-> SubSeq(pre, 1, 2)]
        ELSE IF ~updated.ok
             THEN [n |-> BAD_DATA, dst |-> dst, aborted |-> FALSE, calls |-> pre]
        ELSE [n |-> transfer.n, dst |-> updated.m, aborted |-> FALSE,
              calls |-> pre \o transfer.calls]

\* Mutant: the destination is marked initialized on success and left alone
\* on failure.
copy_MarksOnlySuccess(s, d, src, dst, env) ==
    LET r == copyInternal(s, d, src, dst, env)
    IN  [n |-> r.n, aborted |-> r.aborted,
         dst |-> IF r.aborted \/ r.n # NO_ERROR THEN r.dst
                 ELSE setInitialized(r.dst, TRUE),
         calls |-> IF r.aborted \/ r.n # NO_ERROR THEN r.calls
                   ELSE Append(r.calls, Call("setInitialized", <<>>))]

\* Memory::copy.
copy(s, d, src, dst, env) ==
    LET r == copyInternal(s, d, src, dst, env)
    IN  [n |-> r.n, aborted |-> r.aborted,
         dst |-> IF r.aborted THEN r.dst ELSE setInitialized(r.dst, r.n = NO_ERROR),
         calls |-> IF r.aborted THEN r.calls
                   ELSE Append(r.calls, Call("setInitialized", <<>>))]

(***************************************************************************)
(* MemoryBuilder::allocate.  The environment chooses what the device       *)
(* allocator and the shared-memory allocation return.                      *)
(***************************************************************************)
AllocEnvs == [device : {NO_ERROR, OP_FAILED}, ashmem : BOOLEAN]

MemoryAshmemCreate(size, env) ==
    IF ~env.ashmem THEN [n |-> OUT_OF_MEMORY, memory |-> None]
    ELSE [n |-> NO_ERROR, memory |-> Some(MemoryFromHidl(size))]

DeviceAllocate(env) ==
    IF env.device = NO_ERROR THEN [n |-> NO_ERROR, memory |-> Some(MemoryFromDevice)]
    ELSE [n |-> env.device, memory |-> None]

\* Mutant: a failure of the device allocator is returned as it is.
allocateMemory_NoFallback(b, size, env) ==
    LET first == IF b.mAllocator # "nullptr" THEN DeviceAllocate(env)
                 ELSE MemoryAshmemCreate(size, env)
        firstCalls == IF b.mAllocator # "nullptr"
                      THEN <<Call("Device::allocate", <<first.n>>)>>
                      ELSE <<Call("MemoryAshmem::create", <<size>>)>>
    IN  IF first.n = NO_ERROR
        THEN [n |-> NO_ERROR, calls |-> firstCalls,
              memory |-> Some(setDeviceMemoryValidator(value(first.memory),
                                  b.mRoles, value(b.mOperand), b.mDesc.dimensions))]
        ELSE [n |-> first.n, memory |-> None, calls |-> firstCalls]

\* The allocation proper: the device allocator when one was selected, the
\* shared-memory fallback when it failed or none was selected, and the new
\* object's validator.  The log keeps what the device allocator returned and
\* the size asked of the fallback.
allocateMemory(b, size, env) ==
    LET first == IF b.mAllocator # "nullptr" THEN DeviceAllocate(env)
                 ELSE [n |-> OP_FAILED, memory |-> None]
        firstCalls == IF b.mAllocator # "nullptr"
                      THEN <<Call("Device::allocate", <<first.n>>)>> ELSE <<>>
        second == IF first.n # NO_ERROR THEN MemoryAshmemCreate(size, env) ELSE first
        secondCalls == IF first.n # NO_ERROR
                       THEN <<Call("MemoryAshmem::create", <<size>>)>> ELSE <<>>
    IN  IF second.n = NO_ERROR
        THEN [n |-> NO_ERROR, calls |-> firstCalls \o secondCalls,
              memory |-> Some(setDeviceMemoryValidator(value(second.memory),
                                  b.mRoles, value(b.mOperand), b.mDesc.dimensions))]
        ELSE [n |-> second.n, memory |-> None, calls |-> firstCalls \o secondCalls]

\* Mutant: the descriptor is taken as finished as soon as it has an operand.
allocate_ChecksOperandOnly(b, env) ==
    LET size == getSizeOfData(value(b.mOperand).type, b.mDesc.dimensions)
    IN  IF ~has_value(b.mOperand) THEN [n |-> BAD_STATE, memory |-> None, calls |-> <<>>]
        ELSE IF size = 0 THEN [n |-> OP_FAILED, memory |-> None, calls |-> <<>>]
        ELSE allocateMemory(b, size, env)

\* Mutant: a zero size is not rejected.
allocate_NoSizeCheck(b, env) ==
    LET size == getSizeOfData(value(b.mOperand).type, b.mDesc.dimensions)
    IN  IF ~b.mFinished THEN [n |-> BAD_STATE, memory |-> None, calls |-> <<>>]
        ELSE allocateMemory(b, size, env)

allocate(b, env) ==
    LET size == getSizeOfData(value(b.mOperand).type, b.mDesc.dimensions)
    IN  IF ~b.mFinished THEN [n |-> BAD_STATE, memory |-> None, calls |-> <<>>]
        ELSE IF size = 0 THEN [n |-> OP_FAILED, memory |-> None, calls |-> <<>>]
        ELSE allocateMemory(b, size, env)

(***************************************************************************)
(* Burst consumers.  A memory object keeps, keyed by the address of the    *)
(* burst, a weak reference to every burst that used it, and tells the live *)
(* ones to forget it when it is destroyed.                                 *)
(***************************************************************************)
NewBurst(ptr) == [ptr |-> ptr, alive |-> TRUE, freed |-> <<>>]

\* The addresses the allocator hands out for burst consumers.
BurstAddresses == {"p1", "p2"}

\* The registry of memory object m.
Entries(registry, m) == {e \in registry : e.memory = m}

\* Memory::getKey: the address of the object.
getKey(m) == m

\* std::weak_ptr::lock: non-null iff the burst is still alive.
lock(bs, b) == bs[b].alive

\* ExecutionBurstController::freeMemory, as the burst records it.
freeMemory(burst, key) == [burst EXCEPT !.freed = Append(@, key)]

\* Mutant: the mutex is not taken.
lock_guard_None(mutex, m, t) == mutex

\* std::lock_guard<std::mutex> guard(mMutex) in usedBy.
lock_guard(mutex, m, t) == [mutex EXCEPT ![m] = t]

\* Memory::usedBy: mUsedBy.emplace(burst.get(), burst) inserts unless the
\* key is present.
usedBy(registry, m, ptr, b) ==
    IF \E e \in Entries(registry, m) : e.ptr = ptr THEN registry
    ELSE registry \cup {[memory |-> m, ptr |-> ptr, burst |-> b]}

\* Memory::~Memory: every entry whose weak reference still locks is told
\* to forget the object.
destructor(bs, registry, m) ==
    [b \in DOMAIN bs |->
        IF \E e \in Entries(registry, m) : e.burst = b /\ lock(bs, b)
        THEN freeMemory(bs[b], getKey(m))
        ELSE bs[b]]

(***************************************************************************)
(* State.                                                                  *)
(***************************************************************************)
VARIABLES
    builder,   \* the memory descriptor the client is working on
    mems,      \* the memory objects, indexed by identity
    op,        \* the last call made by the client and its arguments
    pre,       \* what that call found: the descriptor, the number of memory
               \* objects and the destination object as they were before it
    ret,       \* the result code that call returned
    calls,     \* the calls it made to validators, drivers and allocators
    aborted,   \* a CHECK failed and the process died
    bursts,    \* the burst consumers created so far: address, liveness and
               \* the freeMemory notifications received
    mUsedBy,   \* the burst registries of the memory objects: entries
               \* [memory, ptr, burst], burst being a weak reference
    destroyed, \* the keys of the memory objects that have been destroyed
    registered,\* the pairs <<memory, burst>> usedBy has been called with
    mMutex,    \* per memory object, the thread holding its mutex
    pc,        \* per thread, its position inside usedBy or ~Memory
    fdTable    \* the file descriptors of the process and who owns them

burstVars == <<bursts, mUsedBy, destroyed, registered, mMutex, pc>>
vars == <<builder, mems, op, pre, ret, calls, aborted, burstVars, fdTable>>

\* Arguments the client passes.
Indices == 0..1
Frequencies == {NaN, Float(-5), Float(0), Float(5), Float(10), Float(15)}
DimensionArgs == {<<>>, <<0, 4, 4, 3>>, <<1, 4, 4, 3>>, <<2, 2>>, <<4>>}

NoOp == [name |-> "none", src |-> 0, dst |-> 0, compilation |-> "", ioType |-> "",
         index |-> 0, freq |-> Float(0), dimensions |-> <<>>,
         type |-> None, offset |-> ToU32(0), length |-> ToU32(0),
         metadata |-> Metadata(0, <<>>, None),
         size |-> SizeT(0, 0), fd |-> 0, desc |-> BufferDesc("", 0, 0),
         env |-> CopyEnvOk]

\* The host objects the client created before the run: two shared segments
\* and one non-BLOB hardware buffer.
HostMemories == <<MemoryFromHidl(192), MemoryFromHidl(4), MemoryAHWBNonBlob>>
NumHost == Len(HostMemories)

\* The threads of the client, and a thread that is in neither usedBy nor
\* ~Memory.
Threads == {"t1", "t2"}
Idle == [at |-> "idle", memory |-> 0, burst |-> 0, visited |-> {}]

Before(b, n, dst) == [builder |-> b, nmems |-> n, dst |-> dst]

Init ==
    /\ builder = NewMemoryBuilder
    /\ mems = HostMemories
    /\ op = NoOp
    /\ pre = Before(NewMemoryBuilder, NumHost, MemoryFromDevice)
    /\ ret = NO_ERROR
    /\ calls = <<>>
    /\ aborted = FALSE
    /\ bursts = <<>>
    /\ mUsedBy = {}
    /\ destroyed = {}
    /\ registered = {}
    /\ mMutex = [m \in 1..NumHost |-> "free"]
    /\ pc = [t \in Threads |-> Idle]
    /\ fdTable = [fd \in FileDescriptors |-> IF fd = 0 THEN "client" ELSE "closed"]

AddRole(compilation, ioType, index, freq) ==
    LET r == addRole(builder, compilation, ioType, index, freq)
    IN  /\ ~aborted
        /\ Cardinality(r.b.mRoles) <= MaxRoles
        /\ builder' = r.b
        /\ ret' = r.n
        /\ op' = [NoOp EXCEPT !.name = "addRole", !.compilation = compilation,
                              !.ioType = ioType, !.index = index, !.freq = freq]
        /\ pre' = Before(builder, Len(mems), MemoryFromDevice)
        /\ calls' = <<>>
        /\ UNCHANGED <<mems, aborted>>
        /\ UNCHANGED <<burstVars, fdTable>>

SetDimensions(dimensions) ==
    LET r == setDimensions(builder, dimensions)
    IN  /\ ~aborted
        /\ builder' = r.b
        /\ ret' = r.n
        /\ op' = [NoOp EXCEPT !.name = "setDimensions", !.dimensions = dimensions]
        /\ pre' = Before(builder, Len(mems), MemoryFromDevice)
        /\ calls' = <<>>
        /\ UNCHANGED <<mems, aborted>>
        /\ UNCHANGED <<burstVars, fdTable>>

Finish ==
    LET r == finish(builder)
    IN  /\ ~aborted
        /\ builder' = r.b
        /\ ret' = r.n
        /\ aborted' = r.aborted
        /\ op' = [NoOp EXCEPT !.name = "finish"]
        /\ pre' = Before(builder, Len(mems), MemoryFromDevice)
        /\ calls' = <<>>
        /\ UNCHANGED mems
        /\ UNCHANGED <<burstVars, fdTable>>

\* Mutant: a successful allocate hands the descriptor over to the object and
\* leaves a fresh one behind.
AllocateFrom_ConsumesDescriptor(b, env) ==
    LET r == allocate(b, env)
    IN  /\ ~aborted
        /\ Len(mems) < NumHost + MaxAlloc
        /\ mems' = IF has_value(r.memory) THEN Append(mems, value(r.memory)) ELSE mems
        /\ ret' = r.n
        /\ op' = [NoOp EXCEPT !.name = "allocate"]
        /\ pre' = Before(b, Len(mems), MemoryFromDevice)
        /\ calls' = r.calls
        /\ builder' = IF has_value(r.memory) THEN NewMemoryBuilder ELSE builder
        /\ UNCHANGED aborted
        /\ UNCHANGED <<burstVars, fdTable>>

\* allocate() called on the descriptor b.
AllocateFrom(b, env) ==
    LET r == allocate(b, env)
    IN  /\ ~aborted
        /\ Len(mems) < NumHost + MaxAlloc
        /\ mems' = IF has_value(r.memory) THEN Append(mems, value(r.memory)) ELSE mems
        /\ ret' = r.n
        /\ op' = [NoOp EXCEPT !.name = "allocate"]
        /\ pre' = Before(b, Len(mems), MemoryFromDevice)
        /\ calls' = r.calls
        /\ UNCHANGED <<builder, aborted>>
        /\ UNCHANGED <<burstVars, fdTable>>

Allocate(env) == AllocateFrom(builder, env)

Copy(s, d, env) ==
    LET r == copy(s, d, mems[s], mems[d], env)
    IN  /\ ~aborted
        /\ mems' = [mems EXCEPT ![d] = r.dst]
        /\ ret' = r.n
        /\ aborted' = r.aborted
        /\ op' = [NoOp EXCEPT !.name = "copy", !.src = s, !.dst = d, !.env = env]
        /\ pre' = Before(builder, Len(mems), mems[d])
        /\ calls' = r.calls
        /\ UNCHANGED builder
        /\ UNCHANGED <<burstVars, fdTable>>

\* A boolean result, as the client sees it.
BoolResult(b) == IF b THEN "true" ELSE "false"

\* An execution checks the shape of an input against a memory object created
\* from a descriptor.
ValidateInputDimensions(i, dimensions) ==
    /\ ~aborted
    /\ mems[i].validator = "Device"
    /\ ret' = BoolResult(DeviceValidateInputDimensions(mems[i], dimensions))
    /\ op' = [NoOp EXCEPT !.name = "validateInputDimensions", !.dst = i,
                          !.dimensions = dimensions]
    /\ pre' = Before(builder, Len(mems), mems[i])
    /\ calls' = <<>>
    /\ UNCHANGED <<builder, mems, aborted>>
    /\ UNCHANGED <<burstVars, fdTable>>

\* An execution or a model checks the use of memory object i in a role, with
\* an optional shape, at a byte window.
Validate(i, compilation, ioType, index, type, offset, length) ==
    /\ ~aborted
    /\ ret' = BoolResult(validate(mems[i], compilation, ioType, index, type, offset, length))
    /\ op' = [NoOp EXCEPT !.name = "validate", !.dst = i, !.compilation = compilation,
                          !.ioType = ioType, !.index = index, !.type = type,
                          !.offset = offset, !.length = length]
    /\ pre' = Before(builder, Len(mems), mems[i])
    /\ calls' = <<>>
    /\ UNCHANGED <<builder, mems, aborted>>
    /\ UNCHANGED <<burstVars, fdTable>>

\* The copy engine hands the source's metadata to the validator of memory
\* object i (copyInternal's call of updateMetadata).
UpdateMetadata(i, metadata) ==
    LET r == updateMetadata(mems[i], metadata)
    IN  /\ ~aborted
        /\ mems' = [mems EXCEPT ![i] = r.m]
        /\ ret' = BoolResult(r.ok)
        /\ op' = [NoOp EXCEPT !.name = "updateMetadata", !.dst = i, !.metadata = metadata]
        /\ pre' = Before(builder, Len(mems), mems[i])
        /\ calls' = <<>>
        /\ UNCHANGED <<builder, aborted>>
        /\ UNCHANGED <<burstVars, fdTable>>

\* A burst consumer is created at an address no live burst occupies; the
\* address of a destroyed burst may be handed out again.
CreateBurst(ptr) ==
    /\ ~aborted
    /\ Len(bursts) < MaxBursts
    /\ \A b \in 1..Len(bursts) : bursts[b].alive => bursts[b].ptr # ptr
    /\ bursts' = Append(bursts, NewBurst(ptr))
    /\ op' = [NoOp EXCEPT !.name = "createBurst", !.src = Len(bursts) + 1]
    /\ UNCHANGED <<fdTable, builder, mems, pre, ret, calls, aborted,
                   mUsedBy, destroyed, registered, mMutex, pc>>

\* The last owner of a burst consumer lets go of it; a thread inside usedBy
\* still holds a reference to the burst it passes.
DestroyBurst(b) ==
    /\ ~aborted
    /\ bursts[b].alive
    /\ \A t \in Threads : pc[t].burst # b
    /\ bursts' = [bursts EXCEPT ![b].alive = FALSE]
    /\ op' = [NoOp EXCEPT !.name = "destroyBurst", !.src = b]
    /\ UNCHANGED <<fdTable, builder, mems, pre, ret, calls, aborted,
                   mUsedBy, destroyed, registered, mMutex, pc>>

\* Memory::usedBy, called by a single thread.
UsedBy(m, b) ==
    /\ ~aborted
    /\ m \notin destroyed
    /\ bursts[b].alive
    /\ mUsedBy' = usedBy(mUsedBy, m, bursts[b].ptr, b)
    /\ registered' = registered \cup {<<m, b>>}
    /\ op' = [NoOp EXCEPT !.name = "usedBy", !.dst = m, !.src = b]
    /\ UNCHANGED <<fdTable, builder, mems, pre, ret, calls, aborted,
                   bursts, destroyed, mMutex, pc>>

\* Memory::~Memory, run by a single thread.
DestroyMemory(m) ==
    /\ ~aborted
    /\ m \notin destroyed
    /\ bursts' = destructor(bursts, mUsedBy, m)
    /\ destroyed' = destroyed \cup {m}
    /\ op' = [NoOp EXCEPT !.name = "~Memory", !.dst = m]
    /\ UNCHANGED <<fdTable, builder, mems, pre, ret, calls, aborted,
                   mUsedBy, registered, mMutex, pc>>

\* Memory::usedBy and Memory::~Memory step by step, for threads that run
\* them at the same time.  usedBy: the lock_guard is constructed.
UsedByLock(t, m, b) ==
    /\ ~aborted
    /\ pc[t] = Idle
    /\ m \notin destroyed
    /\ bursts[b].alive
    /\ mMutex[m] = "free"
    /\ mMutex' = lock_guard(mMutex, m, t)
    /\ pc' = [pc EXCEPT ![t] = [Idle EXCEPT !.at = "emplace", !.memory = m, !.burst = b]]
    /\ op' = [NoOp EXCEPT !.name = "usedBy", !.dst = m, !.src = b]
    /\ UNCHANGED <<fdTable, builder, mems, pre, ret, calls, aborted,
                   bursts, mUsedBy, destroyed, registered>>

\* usedBy: mUsedBy.emplace.  An insertion while another thread traverses
\* the same container, or after the object is gone, is a data race: the
\* process may die or go on.
UsedByEmplace(t) ==
    LET m == pc[t].memory
        b == pc[t].burst
        race == \/ m \in destroyed
                \/ \E u \in Threads \ {t} : pc[u].at = "traverse" /\ pc[u].memory = m
    IN  /\ ~aborted
        /\ pc[t].at = "emplace"
        /\ mUsedBy' = usedBy(mUsedBy, m, bursts[b].ptr, b)
        /\ registered' = registered \cup {<<m, b>>}
        /\ pc' = [pc EXCEPT ![t].at = "unlock"]
        /\ aborted' \in (IF race THEN BOOLEAN ELSE {FALSE})
        /\ UNCHANGED <<fdTable, builder, mems, op, pre, ret, calls,
                       bursts, destroyed, mMutex>>

\* usedBy: the lock_guard goes out of scope.
UsedByUnlock(t) ==
    /\ ~aborted
    /\ pc[t].at = "unlock"
    /\ mMutex' = [mMutex EXCEPT ![pc[t].memory] = "free"]
    /\ pc' = [pc EXCEPT ![t] = Idle]
    /\ UNCHANGED <<fdTable, builder, mems, op, pre, ret, calls, aborted,
                   bursts, mUsedBy, destroyed, registered>>

\* ~Memory: the range-for over mUsedBy begins.
DestructorBegin(t, m) ==
    /\ ~aborted
    /\ pc[t] = Idle
    /\ m \notin destroyed
    /\ \A u \in Threads : ~(pc[u].at = "traverse" /\ pc[u].memory = m)
    /\ pc' = [pc EXCEPT ![t] = [Idle EXCEPT !.at = "traverse", !.memory = m]]
    /\ op' = [NoOp EXCEPT !.name = "~Memory", !.dst = m]
    /\ UNCHANGED <<fdTable, builder, mems, pre, ret, calls, aborted,
                   bursts, mUsedBy, destroyed, registered, mMutex>>

\* ~Memory: one iteration of the loop.
DestructorVisit(t) ==
    /\ ~aborted
    /\ pc[t].at = "traverse"
    /\ \E e \in Entries(mUsedBy, pc[t].memory) \ pc[t].visited :
          /\ bursts' = IF lock(bursts, e.burst)
                        THEN [bursts EXCEPT ![e.burst] = freeMemory(@, getKey(e.memory))]
                        ELSE bursts
          /\ pc' = [pc EXCEPT ![t].visited = @ \cup {e}]
    /\ UNCHANGED <<fdTable, builder, mems, op, pre, ret, calls, aborted,
                   mUsedBy, destroyed, registered, mMutex>>

\* ~Memory: the loop is over and the object is gone.
DestructorEnd(t) ==
    /\ ~aborted
    /\ pc[t].at = "traverse"
    /\ Entries(mUsedBy, pc[t].memory) \subseteq pc[t].visited
    /\ destroyed' = destroyed \cup {pc[t].memory}
    /\ pc' = [pc EXCEPT ![t] = Idle]
    /\ UNCHANGED <<fdTable, builder, mems, op, pre, ret, calls, aborted,
                   bursts, mUsedBy, registered, mMutex>>

\* A thread inside Memory::copy(src, dst): where it is, its arguments, the
\* metadata it read from the source and the result it is about to return.
Copying(at, s, d, metadata, n) ==
    [at |-> at, src |-> s, dst |-> d, metadata |-> metadata, n |-> n]

\* copyInternal's dispatch on the backings of the two objects.
copyDispatch(src, dst, srcMetadata, env) ==
    IF src.hasIBuffer /\ dst.hasIBuffer THEN copyIBuffers(srcMetadata, env)
    ELSE IF src.hidlValid /\ dst.hidlValid THEN copyHidlMemories(src, dst, env)
    ELSE IF src.hidlValid /\ dst.hasIBuffer
         THEN copyHidlMemoryToIBuffer(srcMetadata.dimensions, env)
    ELSE IF src.hasIBuffer /\ dst.hidlValid THEN copyIBufferToHidlMemory(env)
    ELSE [n |-> OP_FAILED, calls |-> <<>>]

\* Memory::copy entered by thread t; a copy of an object onto itself returns
\* from copyInternal at once.
CopyCall(t, s, d) ==
    /\ ~aborted
    /\ pc[t] = Idle
    /\ pc' = [pc EXCEPT ![t] = Copying(IF s = d THEN "setInitialized" ELSE "isInitialized",
                                        s, d, Metadata(0, <<>>, None), NO_ERROR)]
    /\ UNCHANGED <<fdTable, builder, mems, op, pre, ret, calls, aborted,
                   bursts, mUsedBy, destroyed, registered, mMutex>>

\* copyInternal: the source's initialized flag is read.
CopyIsInitialized(t) ==
    /\ ~aborted
    /\ pc[t].at = "isInitialized"
    /\ pc' = [pc EXCEPT ![t] = IF isInitialized(mems[pc[t].src])
                               THEN [@ EXCEPT !.at = "getMetadata"]
                               ELSE [@ EXCEPT !.at = "setInitialized", !.n = BAD_DATA]]
    /\ UNCHANGED <<fdTable, builder, mems, op, pre, ret, calls, aborted,
                   bursts, mUsedBy, destroyed, registered, mMutex>>

\* copyInternal: the source's metadata is read.  CHECK(mInitialized) ends
\* the process when the flag is clear by now.  Reading the resolved
\* dimensions while another thread is about to assign them is a data race:
\* the process may die or go on.
CopyGetMetadata(t) ==
    LET s == pc[t].src
        race == /\ mems[s].validator = "Device"
                /\ \E u \in Threads \ {t} : pc[u].at = "updateMetadata" /\ pc[u].dst = s
    IN  /\ ~aborted
        /\ pc[t].at = "getMetadata"
        /\ IF getMetadataAborts(mems[s])
           THEN aborted' = TRUE /\ pc' = pc
           ELSE /\ aborted' \in (IF race THEN BOOLEAN ELSE {FALSE})
                /\ pc' = [pc EXCEPT ![t] = [@ EXCEPT !.at = "updateMetadata",
                                                     !.metadata = getMetadata(mems[s])]]
        /\ UNCHANGED <<fdTable, builder, mems, op, pre, ret, calls,
                       bursts, mUsedBy, destroyed, registered, mMutex>>

\* copyInternal: the destination's validator takes the source's metadata.
CopyUpdateMetadata(t) ==
    LET d == pc[t].dst
        updated == updateMetadata(mems[d], pc[t].metadata)
    IN  /\ ~aborted
        /\ pc[t].at = "updateMetadata"
        /\ mems' = IF updated.ok THEN [mems EXCEPT ![d] = updated.m] ELSE mems
        /\ pc' = [pc EXCEPT ![t] = IF updated.ok THEN [@ EXCEPT !.at = "transfer"]
                                   ELSE [@ EXCEPT !.at = "setInitialized", !.n = BAD_DATA]]
        /\ UNCHANGED <<fdTable, builder, op, pre, ret, calls, aborted,
                       bursts, mUsedBy, destroyed, registered, mMutex>>

\* copyInternal: the bytes are transferred.
CopyTransfer(t, env) ==
    /\ ~aborted
    /\ pc[t].at = "transfer"
    /\ pc' = [pc EXCEPT ![t] =
                [@ EXCEPT !.at = "setInitialized",
                          !.n = copyDispatch(mems[pc[t].src], mems[pc[t].dst],
                                             pc[t].metadata, env).n]]
    /\ UNCHANGED <<fdTable, builder, mems, op, pre, ret, calls, aborted,
                   bursts, mUsedBy, destroyed, registered, mMutex>>

\* Memory::copy: the destination's flag is assigned and the call returns.
CopyReturn(t) ==
    LET d == pc[t].dst
    IN  /\ ~aborted
        /\ pc[t].at = "setInitialized"
        /\ mems' = [mems EXCEPT ![d] = setInitialized(@, pc[t].n = NO_ERROR)]
        /\ ret' = pc[t].n
        /\ op' = [NoOp EXCEPT !.name = "copy", !.src = pc[t].src, !.dst = d]
        /\ calls' = <<>>
        /\ pc' = [pc EXCEPT ![t] = Idle]
        /\ UNCHANGED <<fdTable, builder, pre, aborted,
                       bursts, mUsedBy, destroyed, registered, mMutex>>

\* The client opens a file: it gets the lowest closed descriptor.
OpenFile ==
    /\ ~aborted
    /\ \E fd \in FileDescriptors : fdTable[fd] = "closed"
    /\ fdTable' = [fdTable EXCEPT ![LowestClosed(fdTable)] = "client"]
    /\ op' = [NoOp EXCEPT !.name = "open", !.fd = LowestClosed(fdTable)]
    /\ UNCHANGED <<builder, mems, pre, ret, calls, aborted, burstVars>>

\* The client closes one of its descriptors.
CloseFile(fd) ==
    /\ ~aborted
    /\ fdTable[fd] = "client"
    /\ fdTable' = [fdTable EXCEPT ![fd] = "closed"]
    /\ op' = [NoOp EXCEPT !.name = "close", !.fd = fd]
    /\ UNCHANGED <<builder, mems, pre, ret, calls, aborted, burstVars>>

\* ANeuralNetworksMemory_createFromFd.
CreateFromFd(size, prot, fd, offset, env) ==
    LET r == MemoryFdCreate(fdTable, size, prot, fd, offset, env)
    IN  /\ ~aborted
        /\ Len(mems) < NumHost + MaxAlloc
        /\ mems' = IF has_value(r.memory) THEN Append(mems, value(r.memory)) ELSE mems
        /\ fdTable' = r.table
        /\ ret' = r.n
        /\ op' = [NoOp EXCEPT !.name = "createFromFd", !.size = size, !.fd = fd]
        /\ pre' = Before(builder, Len(mems), MemoryFromDevice)
        /\ calls' = <<>>
        /\ UNCHANGED <<builder, aborted, burstVars>>

\* ANeuralNetworksMemory_createFromAHardwareBuffer.
CreateFromAHardwareBuffer(bufferDesc) ==
    LET r == MemoryAHWBCreate(bufferDesc)
    IN  /\ ~aborted
        /\ Len(mems) < NumHost + MaxAlloc
        /\ mems' = IF has_value(r.memory) THEN Append(mems, value(r.memory)) ELSE mems
        /\ ret' = r.n
        /\ op' = [NoOp EXCEPT !.name = "createFromAHardwareBuffer", !.desc = bufferDesc]
        /\ pre' = Before(builder, Len(mems), MemoryFromDevice)
        /\ calls' = <<>>
        /\ UNCHANGED <<builder, aborted, burstVars, fdTable>>

\* Every role of the two compilations (and one index out of range) with
\* frequency 1.0, and every frequency for two of them.
RoleKeys == Compilations \X {INPUT, OUTPUT} \X Indices
FrequencyKeys == {<<"c1", INPUT, 0>>, <<"c2", OUTPUT, 1>>}
RoleArgs ==
    {<<k[1], k[2], k[3], Float(10)>> : k \in RoleKeys}
    \cup {<<k[1], k[2], k[3], f>> : k \in FrequencyKeys, f \in Frequencies}

\* The descriptor's life: roles, dimensions, finish and allocation.
Next ==
    \/ \E a \in RoleArgs : AddRole(a[1], a[2], a[3], a[4])
    \/ \E dims \in DimensionArgs : SetDimensions(dims)
    \/ Finish
    \/ \E env \in AllocEnvs : Allocate(env)

Spec == Init /\ [][Next]_vars

\* The copy engine: the client holds finished descriptors, creates memory
\* objects from them and copies between all its memory objects.
RECURSIVE addRoles(_, _)
addRoles(b, args) ==
    IF args = <<>> THEN b
    ELSE addRoles(addRole(b, args[1][1], args[1][2], args[1][3], args[1][4]).b, Tail(args))

FinishedDescriptor(args) == finish(addRoles(NewMemoryBuilder, args)).b

CopyDescriptors ==
    {FinishedDescriptor(<< <<"c1", INPUT, 0, Float(10)>> >>),
     FinishedDescriptor(<< <<"c1", OUTPUT, 0, Float(10)>>, <<"c2", OUTPUT, 0, Float(10)>> >>),
     FinishedDescriptor(<< <<"c2", INPUT, 1, Float(10)>> >>),
     FinishedDescriptor(<< <<"c2", OUTPUT, 1, Float(10)>> >>)}

NextCopy ==
    \/ \E b \in CopyDescriptors, env \in AllocEnvs : AllocateFrom(b, env)
    \/ \E s \in 1..Len(mems), d \in 1..Len(mems) :
          \E env \in CopyEnvs(mems[s], mems[d]) : Copy(s, d, env)

SpecCopy == Init /\ [][NextCopy]_vars

\* The dimension combiner at work: the client passes every shape of a
\* bounded set to setDimensions and registers tensor roles of compilation c2.
Shapes == UNION {[1..n -> 0..MaxDim] : n \in 0..MaxRank}
DimensionRoleKeys == {<<"c2", INPUT, 0>>, <<"c2", INPUT, 1>>}

NextDimensions ==
    \/ \E dims \in Shapes : SetDimensions(dims)
    \/ \E k \in DimensionRoleKeys : AddRole(k[1], k[2], k[3], Float(10))

SpecDimensions == Init /\ [][NextDimensions]_vars

\* Inputs of executions: the client creates memory objects from the
\* descriptor of input 0 of c1, copies between all its memory objects and
\* has the shape of an input checked against those created.
InputDescriptors == {FinishedDescriptor(<< <<"c1", INPUT, 0, Float(10)>> >>)}
InputDimensionArgs == {<<>>, <<0, 4, 4, 3>>, <<1, 4, 4, 3>>, <<2, 4, 4, 3>>}

NextInput ==
    \/ \E b \in InputDescriptors, env \in AllocEnvs : AllocateFrom(b, env)
    \/ \E s \in 1..Len(mems), d \in 1..Len(mems) :
          \E env \in CopyEnvs(mems[s], mems[d]) : Copy(s, d, env)
    \/ \E i \in 1..Len(mems), dims \in InputDimensionArgs : ValidateInputDimensions(i, dims)

SpecInput == Init /\ [][NextInput]_vars

\* Byte windows on host memory: the client has windows of its host objects
\* validated, with offsets and lengths from both ends of the uint32_t range.
WindowValues ==
    {ToU32(0), ToU32(1), ToU32(4), ToU32(188), ToU32(192), ToU32(193),
     U32(32768, 0), U32(65535, 65532), U32(65535, 65535)}

NextWindow ==
    \E i \in 1..Len(mems), offset \in WindowValues, length \in WindowValues :
        Validate(i, "c1", INPUT, 0, None, offset, length)

SpecWindow == Init /\ [][NextWindow]_vars

\* Uses of memory created from descriptors: the client creates objects from
\* a descriptor of two tensor outputs and from one of a scalar input, and has
\* them validated in every role context, with and without a shape.
ValidateDescriptors ==
    {FinishedDescriptor(<< <<"c1", OUTPUT, 0, Float(10)>>, <<"c2", OUTPUT, 0, Float(10)>> >>),
     FinishedDescriptor(<< <<"c1", INPUT, 1, Float(10)>> >>)}
RoleContexts == (Compilations \cup {"nullptr"}) \X {INPUT, OUTPUT} \X Indices
MemberContexts == {<<"c1", OUTPUT, 0>>, <<"c1", INPUT, 1>>}
TypeArgs == {None, Some(<<>>), Some(<<0, 4, 4, 3>>), Some(<<1, 4, 4, 3>>), Some(<<2, 2>>)}
WindowArgs == {<<ToU32(0), ToU32(0)>>, <<ToU32(0), ToU32(4)>>, <<ToU32(4), ToU32(0)>>}
ValidateArgs ==
    {<<k, None, <<ToU32(0), ToU32(0)>> >> : k \in RoleContexts}
    \cup (MemberContexts \X TypeArgs \X WindowArgs)

NextValidate ==
    \/ \E b \in ValidateDescriptors, env \in AllocEnvs : AllocateFrom(b, env)
    \/ \E i \in {j \in 1..Len(mems) : mems[j].validator = "Device"}, a \in ValidateArgs :
          Validate(i, a[1][1], a[1][2], a[1][3], a[2], a[3][1], a[3][2])

SpecValidate == Init /\ [][NextValidate]_vars

\* Uses of the non-BLOB hardware buffer: the client has it validated as an
\* execution input or output of either compilation and as a model constant
\* (no compilation), at every window of WindowValues.
UseContexts == (Compilations \cup {"nullptr"}) \X {INPUT, OUTPUT}

NextHardwareBuffer ==
    \E i \in {j \in 1..Len(mems) : mems[j].validator = "NonBlob"},
       k \in UseContexts, offset \in WindowValues, length \in WindowValues :
        Validate(i, k[1], k[2], 0, None, offset, length)

SpecHardwareBuffer == Init /\ [][NextHardwareBuffer]_vars

\* Metadata handed to validators: the client creates objects from the
\* descriptors of a float tensor, a quantized tensor and a scalar, and every
\* validator is given metadata of every size, shape and operand of bounded
\* sets.
MetadataDescriptors ==
    {FinishedDescriptor(<< <<"c1", INPUT, 0, Float(10)>> >>),
     FinishedDescriptor(<< <<"c2", INPUT, 1, Float(10)>> >>),
     FinishedDescriptor(<< <<"c1", INPUT, 1, Float(10)>> >>)}
MetadataEnvs == {env \in AllocEnvs : env.device = NO_ERROR /\ env.ashmem}
MetadataSizes == {0} \cup {getSizeOfData(value(b.mOperand).type, b.mDesc.dimensions) :
                              b \in MetadataDescriptors}
MetadataShapes == {<<>>, <<0, 2>>} \cup {b.mDesc.dimensions : b \in MetadataDescriptors}
MetadataOperands ==
    {None} \cup {Some(o) : o \in {getInputOperand("c1", 0), getInputOperand("c2", 1),
                                   getOutputOperand("c2", 1)}}
MetadataArgs ==
    {Metadata(n, d, o) : n \in MetadataSizes, d \in MetadataShapes, o \in MetadataOperands}

NextMetadata ==
    \/ \E b \in MetadataDescriptors, env \in MetadataEnvs : AllocateFrom(b, env)
    \/ \E i \in 1..Len(mems), metadata \in MetadataArgs : UpdateMetadata(i, metadata)

SpecMetadata == Init /\ [][NextMetadata]_vars

\* Burst consumers and the memory objects they use: the client creates and
\* releases bursts, executions register them with the host objects, and the
\* client destroys host objects.
NextBurst ==
    \/ \E ptr \in BurstAddresses : CreateBurst(ptr)
    \/ \E b \in 1..Len(bursts) : DestroyBurst(b)
    \/ \E m \in 1..NumHost, b \in 1..Len(bursts) : UsedBy(m, b)
    \/ \E m \in 1..NumHost : DestroyMemory(m)

SpecBurst == Init /\ [][NextBurst]_vars

\* The same with threads: executions register bursts with the first host
\* object while the client may be destroying it.
NextBurstThreads ==
    \/ \E ptr \in BurstAddresses : CreateBurst(ptr)
    \/ \E b \in 1..Len(bursts) : DestroyBurst(b)
    \/ \E t \in Threads, b \in 1..Len(bursts) : UsedByLock(t, 1, b)
    \/ \E t \in Threads : UsedByEmplace(t)
    \/ \E t \in Threads : UsedByUnlock(t)
    \/ \E t \in Threads : DestructorBegin(t, 1)
    \/ \E t \in Threads : DestructorVisit(t)
    \/ \E t \in Threads : DestructorEnd(t)

SpecBurstThreads == Init /\ [][NextBurstThreads]_vars

\* Creation from file descriptors: the client opens and closes files and
\* creates memory objects from descriptors that are valid, closed or
\* negative, with sizes below and above 2^32.
FdSizes == {SizeT(0, 0), SizeT(0, 4), SizeT(0, 192), SizeT(1, 0), SizeT(1, 4)}
FdArgs == {-1} \cup FileDescriptors
FdEnvs == [handle : BOOLEAN]
NextCreate ==
    \/ OpenFile
    \/ \E fd \in FileDescriptors : CloseFile(fd)
    \/ \E size \in FdSizes, fd \in FdArgs, env \in FdEnvs :
          CreateFromFd(size, "PROT_READ", fd, SizeT(0, 0), env)

SpecCreate == Init /\ [][NextCreate]_vars

\* Creation from hardware buffers of BLOB and other formats; the objects
\* created are then validated as an input of an execution.
BufferDescs ==
    {BufferDesc(f, w, h) : f \in {AHARDWAREBUFFER_FORMAT_BLOB, "R8G8B8A8_UNORM"},
                           w \in {0, 4, 192}, h \in {1, 4}}

NextCreateHardwareBuffer ==
    \/ \E bufferDesc \in BufferDescs : CreateFromAHardwareBuffer(bufferDesc)
    \/ \E i \in (NumHost + 1)..Len(mems), w \in WindowArgs :
          Validate(i, "c1", INPUT, 0, None, w[1], w[2])

SpecCreateHardwareBuffer == Init /\ [][NextCreateHardwareBuffer]_vars

\* Transfers between host segments and driver buffers: the client allocates
\* from a single-role descriptor whose size matches the larger host segment,
\* or from one whose operand leaves an axis unspecified, and copies between
\* any two objects.
TransferDescriptors ==
    {FinishedDescriptor(<< <<"c1", INPUT, 0, Float(10)>> >>),
     FinishedDescriptor(<< <<"c1", OUTPUT, 0, Float(10)>> >>)}

NextTransfer ==
    \/ \E b \in TransferDescriptors, env \in AllocEnvs : AllocateFrom(b, env)
    \/ \E s \in 1..Len(mems), d \in 1..Len(mems) :
          \E env \in CopyEnvs(mems[s], mems[d]) : Copy(s, d, env)

SpecTransfer == Init /\ [][NextTransfer]_vars

\* Copies by two threads: the client allocates from one descriptor and two
\* threads copy, step by step, between any two of the first host segment and
\* the allocated objects.
ThreadCopyObjects == {1} \cup ((NumHost + 1)..Len(mems))

NextCopyThreads ==
    \/ \E env \in AllocEnvs :
          AllocateFrom(FinishedDescriptor(<< <<"c1", INPUT, 0, Float(10)>> >>), env)
    \/ \E t \in Threads, s \in ThreadCopyObjects, d \in ThreadCopyObjects : CopyCall(t, s, d)
    \/ \E t \in Threads : CopyIsInitialized(t)
    \/ \E t \in Threads : CopyGetMetadata(t)
    \/ \E t \in Threads : CopyUpdateMetadata(t)
    \/ \E t \in Threads :
          /\ pc[t].at = "transfer"
          /\ \E env \in CopyEnvs(mems[pc[t].src], mems[pc[t].dst]) : CopyTransfer(t, env)
    \/ \E t \in Threads : CopyReturn(t)

SpecCopyThreads == Init /\ [][NextCopyThreads]_vars

(***************************************************************************)
(* Properties.  They are stated over the last call (op, ret, calls), what  *)
(* it found (pre) and what it left (builder, mems).                        *)
(***************************************************************************)
IsCopy == op.name = "copy" /\ ~aborted
DistinctCopy == IsCopy /\ op.src # op.dst
Src == mems[op.src]
Dst == mems[op.dst]
CallNames == {calls[i].f : i \in 1..Len(calls)}
TransferCalls ==
    {"createFromHidlMemory", "std::copy", "flush", "allocateSharedMemory", "copyTo", "copyFrom"}

C2_UninitializedSourceRejectedFirst ==
    (/\ op.name = "copy" /\ op.src # op.dst
     /\ Src.validator = "Device" /\ ~Src.mInitialized)
    => /\ ret = BAD_DATA
       /\ ~aborted
       /\ Dst.mUpdatedDimensions = pre.dst.mUpdatedDimensions
       /\ CallNames \cap ({"getMetadata", "updateMetadata"} \cup TransferCalls) = {}

C2_Witness ==
    /\ DistinctCopy
    /\ Src.validator = "Device" /\ ~Src.mInitialized
    /\ Dst.validator = "Device"
    /\ ret = BAD_DATA
    /\ calls = <<Call("isInitialized", <<>>), Call("setInitialized", <<>>)>>

C4_SelfCopyLeavesStateUnchanged ==
    (IsCopy /\ op.src = op.dst)
    => /\ ret = NO_ERROR
       /\ Dst.mInitialized = pre.dst.mInitialized
       /\ Dst.mUpdatedDimensions = pre.dst.mUpdatedDimensions

IsBuilderCall == op.name \in {"addRole", "setDimensions", "finish"}
OpKey == CompilationRole(op.compilation, op.ioType, op.index)

\* An addRole call that passes every check but those on the finished flag,
\* on duplicates and on the frequency.
OtherwiseValid(b, compilation, ioType, index) ==
    LET inRange == IF ioType = INPUT THEN index < inputCount(compilation)
                   ELSE index < outputCount(compilation)
        operand == IF ioType = INPUT THEN getInputOperand(compilation, index)
                   ELSE getOutputOperand(compilation, index)
    IN  /\ inRange
        /\ ~incompatibleOperand(b.mOperand, operand)
        /\ isTensorType(operand.type) \/ b.mDesc.dimensions = <<>>
        /\ has_value(combineDimensions(b.mDesc.dimensions, operand.dimensions))

\* C5: on a finished descriptor every addRole, setDimensions and finish
\* returns BAD_STATE whatever its arguments, and no call changes the
\* descriptor: roles, dimensions, operand, BufferRole lists, allocator and
\* the finished flag stay as they are.
C5_FinishedDescriptorRejectsMutation ==
    pre.builder.mFinished
    => /\ builder = pre.builder
       /\ IsBuilderCall => ret = BAD_STATE

C5_Witness ==
    /\ pre.builder.mFinished
    /\ op.name = "addRole" /\ ret = BAD_STATE
    /\ OpKey \notin builder.mRoles
    /\ OtherwiseValid(builder, op.compilation, op.ioType, op.index)

\* C6: finish on an unfinished descriptor without roles returns BAD_DATA and
\* changes nothing; from there an addRole followed by finish still succeeds,
\* and allocate returns BAD_STATE as long as the descriptor is unfinished.
C6_FinishWithoutRolesRejected ==
    /\ (op.name = "finish" /\ ~pre.builder.mFinished /\ pre.builder.mRoles = {})
       => /\ ret = BAD_DATA /\ ~aborted
          /\ builder = pre.builder
          /\ \E a \in RoleArgs :
                LET r == addRole(builder, a[1], a[2], a[3], a[4])
                IN  /\ r.n = NO_ERROR
                    /\ finish(r.b).n = NO_ERROR
                    /\ finish(r.b).b.mFinished
    /\ (op.name = "allocate" /\ ~pre.builder.mFinished) => ret = BAD_STATE

C6_Witness ==
    /\ op.name = "finish" /\ ret = BAD_DATA
    /\ builder.mRoles = {} /\ ~builder.mFinished

\* C7: on an unfinished descriptor an addRole whose (compilation, io type,
\* index) is already registered returns BAD_DATA and leaves the role set and
\* the accumulated dimensions as they were; a role that differs from the
\* registered ones in its compilation or its io type is not a duplicate: the
\* call succeeds when it is valid otherwise.
C7_DuplicateRoleRejected ==
    (op.name = "addRole" /\ ~pre.builder.mFinished)
    => /\ OpKey \in pre.builder.mRoles
          => /\ ret = BAD_DATA
             /\ builder.mRoles = pre.builder.mRoles
             /\ builder.mDesc.dimensions = pre.builder.mDesc.dimensions
       /\ (/\ OpKey \notin pre.builder.mRoles
           /\ OtherwiseValid(pre.builder, op.compilation, op.ioType, op.index)
           /\ op.freq = Float(10))
          => ret = NO_ERROR

C7_Witness ==
    /\ op.name = "addRole" /\ ret = BAD_DATA
    /\ ~builder.mFinished
    /\ OpKey \in pre.builder.mRoles
    /\ \E r \in builder.mRoles : r # OpKey /\ r[3] = op.index

\* The frequency, as a real number, lies in (0.0, 1.0].
FrequencyInRange(f) == ~f.nan /\ 0 < f.v /\ f.v <= 10

\* The BufferRole entries a call appended to a list.
Appended(before, after) == {after[i] : i \in (Len(before) + 1)..Len(after)}

\* C8: an otherwise valid addRole succeeds iff its frequency lies in
\* (0.0, 1.0]; outside it the call returns BAD_DATA and registers nothing,
\* inside it every BufferRole entry recorded carries the frequency given.
C8_FrequencyAcceptedIffInRange ==
    (/\ op.name = "addRole" /\ ~pre.builder.mFinished
     /\ OpKey \notin pre.builder.mRoles
     /\ OtherwiseValid(pre.builder, op.compilation, op.ioType, op.index))
    => /\ ret = NO_ERROR <=> FrequencyInRange(op.freq)
       /\ ret # NO_ERROR => (ret = BAD_DATA /\ builder = pre.builder)
       /\ ret = NO_ERROR =>
             \A r \in Appended(pre.builder.mDesc.inputRoles, builder.mDesc.inputRoles)
                      \cup Appended(pre.builder.mDesc.outputRoles, builder.mDesc.outputRoles) :
                r.frequency = op.freq

UnknownDimensions(dimensions) ==
    dimensions = <<>> \/ \E i \in 1..Len(dimensions) : dimensions[i] = 0

\* C9: allocate on a descriptor that is not finished returns BAD_STATE,
\* creates no object and calls neither a device allocator nor the
\* shared-memory fallback.
C9_AllocateUnfinishedRejected ==
    (op.name = "allocate" /\ ~pre.builder.mFinished)
    => /\ ret = BAD_STATE
       /\ Len(mems) = pre.nmems
       /\ calls = <<>>

C9_Witness ==
    /\ op.name = "allocate" /\ ret = BAD_STATE
    /\ ~builder.mFinished
    /\ builder.mRoles # {}
    /\ ~UnknownDimensions(builder.mDesc.dimensions)

\* C10: allocate on a finished descriptor of a tensor operand whose
\* accumulated dimensions have an unknown axis or unknown rank returns
\* OP_FAILED, creates no object and calls no allocator; an allocator is
\* called only when the byte size is not zero.
C10_AllocateUnknownDimensionsFails ==
    (op.name = "allocate" /\ pre.builder.mFinished)
    => LET type == value(pre.builder.mOperand).type
           dimensions == pre.builder.mDesc.dimensions
       IN  /\ (isTensorType(type) /\ UnknownDimensions(dimensions))
              => /\ ret = OP_FAILED
                 /\ Len(mems) = pre.nmems
                 /\ calls = <<>>
           /\ calls # <<>>
              => /\ getSizeOfData(type, dimensions) # 0
                 /\ ~isTensorType(type) \/ ~UnknownDimensions(dimensions)

C10_Witness ==
    /\ op.name = "allocate" /\ ret = OP_FAILED
    /\ builder.mFinished
    /\ \E i \in 1..Len(builder.mDesc.dimensions) : builder.mDesc.dimensions[i] = 0

\* The devices of the prepared-model steps a descriptor's roles reference.
Devices(b) == {getDevice(pm) : pm \in SeqToSet(b.mDesc.preparedModels)}

\* C11: finish on a descriptor whose roles reference steps on two or more
\* devices returns NO_ERROR and selects no allocating device; allocate on
\* such a finished descriptor never calls a device allocator, and when it
\* allocates at all its one call is the shared-memory fallback; a finished
\* descriptor has a device selected only when all its steps name that device.
C11_MultipleDevicesUseFallback ==
    /\ (/\ op.name = "finish" /\ ~pre.builder.mFinished
        /\ Cardinality(Devices(pre.builder)) >= 2)
       => /\ ret = NO_ERROR /\ ~aborted
          /\ builder.mFinished
          /\ builder.mAllocator = "nullptr"
    /\ (/\ op.name = "allocate" /\ pre.builder.mFinished
        /\ Cardinality(Devices(pre.builder)) >= 2)
       => /\ "Device::allocate" \notin CallNames
          /\ ret # OP_FAILED => (Len(calls) = 1 /\ calls[1].f = "MemoryAshmem::create")
    /\ (builder.mFinished /\ builder.mAllocator # "nullptr")
       => Devices(builder) = {builder.mAllocator}

C11_Witness ==
    /\ op.name = "allocate" /\ ret = NO_ERROR
    /\ pre.builder.mFinished
    /\ Cardinality(Devices(pre.builder)) >= 2
    /\ calls = <<Call("MemoryAshmem::create", <<192>>)>>
    /\ Len(mems) = pre.nmems + 1

\* An allocate call that reached the allocation proper: the descriptor was
\* finished and its byte size is not zero.
AllocationAttempted ==
    /\ op.name = "allocate" /\ pre.builder.mFinished
    /\ getSizeOfData(value(pre.builder.mOperand).type, pre.builder.mDesc.dimensions) # 0

DeviceCalls == {i \in 1..Len(calls) : calls[i].f = "Device::allocate"}
FallbackCalls == {i \in 1..Len(calls) : calls[i].f = "MemoryAshmem::create"}

\* C12: one allocate calls the device allocator at most once and the
\* shared-memory fallback at most once, the device first; the fallback is
\* called exactly when no device was selected or the device allocator
\* returned an error; the result is NO_ERROR with one new object or the
\* fallback's error with none, never the device's error.
C12_OneFallbackAttempt ==
    AllocationAttempted
    => /\ Cardinality(DeviceCalls) <= 1 /\ Cardinality(FallbackCalls) <= 1
       /\ DeviceCalls = (IF pre.builder.mAllocator = "nullptr" THEN {} ELSE {1})
       /\ FallbackCalls # {}
          <=> \/ pre.builder.mAllocator = "nullptr"
              \/ \E i \in DeviceCalls : calls[i].arg # <<NO_ERROR>>
       /\ \A i \in DeviceCalls, j \in FallbackCalls : i < j
       /\ ret \in {NO_ERROR, OUT_OF_MEMORY}
       /\ ret = NO_ERROR => Len(mems) = pre.nmems + 1
       /\ ret # NO_ERROR => (Len(mems) = pre.nmems /\ FallbackCalls # {})

C12_Witness ==
    /\ AllocationAttempted
    /\ calls = <<Call("Device::allocate", <<OP_FAILED>>),
                 Call("MemoryAshmem::create", <<192>>)>>
    /\ ret = NO_ERROR
    /\ Len(mems) = pre.nmems + 1
    /\ mems[Len(mems)].hidlValid

\* C13: every object a successful allocate returns, from the device
\* allocator or from the fallback, has a device-role validator whose role set
\* is the descriptor's, whose operand is the descriptor's, whose initial and
\* resolved dimensions are the descriptor's accumulated dimensions and whose
\* initialized flag is false.
C13_AllocatedObjectCarriesDescriptor ==
    (op.name = "allocate" /\ ret = NO_ERROR)
    => /\ Len(mems) = pre.nmems + 1
       /\ LET m == mems[Len(mems)]
          IN  /\ m.validator = "Device"
              /\ m.kCompilationRoles = pre.builder.mRoles
              /\ m.kOperand = pre.builder.mOperand
              /\ m.kInitialDimensions = pre.builder.mDesc.dimensions
              /\ m.mUpdatedDimensions = pre.builder.mDesc.dimensions
              /\ ~m.mInitialized
              /\ ~isInitialized(m)

C13_Witness ==
    /\ op.name = "allocate" /\ ret = NO_ERROR
    /\ Len(mems) = NumHost + 2
    /\ mems[NumHost + 1].hasIBuffer /\ mems[NumHost + 2].hidlValid
    /\ \A i \in {NumHost + 1, NumHost + 2} :
          /\ mems[i].validator = "Device" /\ ~mems[i].mInitialized
          /\ Cardinality(mems[i].kCompilationRoles) = 2

\* The operand of a role, and the shape a successful call contributes.
RoleOperand(role) ==
    IF role[2] = INPUT THEN getInputOperand(role[1], role[3])
    ELSE getOutputOperand(role[1], role[3])
OpShape == IF op.name = "addRole" THEN RoleOperand(OpKey).dimensions ELSE op.dimensions

\* Combining into a result that may already have failed.
CombineInto(o, shape) == IF has_value(o) THEN combineDimensions(value(o), shape) ELSE None

\* Every shape a call can contribute.
ContributedShapes ==
    DimensionArgs \cup {RoleOperand(k).dimensions :
                          k \in {r \in RoleKeys : r[3] < (IF r[2] = INPUT THEN inputCount(r[1])
                                                         ELSE outputCount(r[1]))}}

ScenarioInput == CompilationRole("c1", INPUT, 0)
ScenarioOutput == CompilationRole("c1", OUTPUT, 0)
\* A descriptor to which nothing but roles of the scenario contributed.
InScenario(b) ==
    /\ b.mRoles \subseteq {ScenarioInput, ScenarioOutput}
    /\ b.mDesc.dimensions =
          (IF ScenarioInput \in b.mRoles THEN <<1, 4, 4, 3>>
           ELSE IF ScenarioOutput \in b.mRoles THEN <<0, 4, 4, 3>> ELSE <<>>)

\* C14: with an input role of shape [1,4,4,3] and an output role of shape
\* [0,4,4,3] of one compilation, registered in either order, both addRole
\* calls and finish succeed, the accumulated dimensions are [1,4,4,3] and a
\* successful allocate yields an uninitialized object of 1*4*4*3*4 bytes.
\* In general a successful addRole or setDimensions leaves the combination of
\* the accumulated dimensions with the shape it contributes, and contributing
\* that shape before or after any other shape gives the same outcome.
C14_DimensionsAccumulateInAnyOrder ==
    /\ (/\ op.name = "addRole" /\ OpKey \in {ScenarioInput, ScenarioOutput}
        /\ ~pre.builder.mFinished /\ InScenario(pre.builder)
        /\ OpKey \notin pre.builder.mRoles
        /\ FrequencyInRange(op.freq))
       => /\ ret = NO_ERROR
          /\ InScenario(builder)
          /\ builder.mRoles = {ScenarioInput, ScenarioOutput}
             => builder.mDesc.dimensions = <<1, 4, 4, 3>>
    /\ (/\ op.name = "finish" /\ ~pre.builder.mFinished /\ InScenario(pre.builder)
        /\ pre.builder.mRoles = {ScenarioInput, ScenarioOutput})
       => /\ ret = NO_ERROR /\ ~aborted
          /\ builder.mFinished
          /\ builder.mDesc.dimensions = <<1, 4, 4, 3>>
    /\ (/\ op.name = "allocate" /\ pre.builder.mFinished /\ InScenario(pre.builder)
        /\ pre.builder.mRoles = {ScenarioInput, ScenarioOutput})
       => /\ ret # OP_FAILED
          /\ ret = NO_ERROR
             => LET m == mems[Len(mems)]
                IN  /\ Len(mems) = pre.nmems + 1
                    /\ getSizeOfData(value(m.kOperand).type, m.mUpdatedDimensions)
                          = 1 * 4 * 4 * 3 * sizeOfElement(TENSOR_FLOAT32)
                    /\ m.hidlValid => m.hidlSize = 1 * 4 * 4 * 3 * sizeOfElement(TENSOR_FLOAT32)
                    /\ ~isInitialized(m)
    /\ (op.name \in {"addRole", "setDimensions"} /\ ret = NO_ERROR)
       => /\ Some(builder.mDesc.dimensions)
                = combineDimensions(pre.builder.mDesc.dimensions, OpShape)
          /\ \A x \in ContributedShapes :
                CombineInto(Some(builder.mDesc.dimensions), x)
                   = CombineInto(combineDimensions(pre.builder.mDesc.dimensions, x), OpShape)

C14_Witness ==
    /\ op.name = "allocate" /\ ret = NO_ERROR
    /\ pre.builder.mFinished
    /\ pre.builder.mRoles = {ScenarioInput, ScenarioOutput}
    /\ pre.builder.mDesc.inputRoles # <<>> /\ pre.builder.mDesc.outputRoles # <<>>
    /\ mems[Len(mems)].mUpdatedDimensions = <<1, 4, 4, 3>>
    /\ ~mems[Len(mems)].mInitialized

\* A shape that says nothing: unknown rank, or unknown axes only.
FullyUnknown(shape) == \A i \in 1..Len(shape) : shape[i] = 0

\* A call that combines the accumulated dimensions with a shape, every other
\* check of the call passed.
CombinesShape ==
    /\ ~pre.builder.mFinished
    /\ \/ /\ op.name = "setDimensions"
          /\ \/ ~has_value(pre.builder.mOperand)
             \/ isTensorType(value(pre.builder.mOperand).type)
       \/ /\ op.name = "addRole"
          /\ OpKey \notin pre.builder.mRoles
          /\ ~incompatibleOperand(pre.builder.mOperand, RoleOperand(OpKey))
          /\ isTensorType(RoleOperand(OpKey).type)
          /\ FrequencyInRange(op.freq)

\* C15 as claimed: combining a fully unknown shape (empty, or unknown axes
\* only, of any length) with any shape S gives S, whichever of the two is
\* the accumulated one.
C15_FullyUnknownYieldsOther ==
    CombinesShape
    => /\ FullyUnknown(pre.builder.mDesc.dimensions)
          => (ret = NO_ERROR /\ builder.mDesc.dimensions = OpShape)
       /\ FullyUnknown(OpShape)
          => (ret = NO_ERROR /\ builder.mDesc.dimensions = pre.builder.mDesc.dimensions)

\* C15 as amended: combining a fully unknown shape U with a shape S gives S
\* when U is empty or has the rank of S.
C15_FullyUnknownOfSameRankYieldsOther ==
    CombinesShape
    => /\ (/\ FullyUnknown(pre.builder.mDesc.dimensions)
           /\ Len(pre.builder.mDesc.dimensions) \in {0, Len(OpShape)})
          => (ret = NO_ERROR /\ builder.mDesc.dimensions = OpShape)
       /\ (/\ FullyUnknown(OpShape)
           /\ Len(OpShape) \in {0, Len(pre.builder.mDesc.dimensions)})
          => (ret = NO_ERROR /\ builder.mDesc.dimensions = pre.builder.mDesc.dimensions)

C15_Witness ==
    /\ CombinesShape /\ ret = NO_ERROR
    /\ pre.builder.mDesc.dimensions = <<0, 0>>
    /\ OpShape = <<2, 2>>
    /\ builder.mDesc.dimensions = <<2, 2>>

\* The combiner as the specification words it: an empty shape gives the
\* other; two shapes of different rank fail; per axis, 0 gives the other
\* value and two values that are not 0 must be equal.
ReferenceAxis(a, b) == IF a = 0 THEN {b} ELSE IF b = 0 \/ b = a THEN {a} ELSE {}
ReferenceCombine(A, B) ==
    IF A = <<>> THEN {B}
    ELSE IF B = <<>> THEN {A}
    ELSE IF Len(A) # Len(B) THEN {}
    ELSE {R \in [1..Len(A) -> SeqToSet(A) \cup SeqToSet(B)] :
             \A i \in 1..Len(A) : R[i] \in ReferenceAxis(A[i], B[i])}

\* C16: setDimensions(B) on accumulated dimensions A succeeds iff the
\* reference combination of A and B exists, leaves that combination when it
\* does and returns BAD_DATA with A unchanged when it does not; so B = A
\* succeeds and leaves A, and a B that differs from A on an axis known in both
\* fails.
C16_CombineMatchesReference ==
    (CombinesShape /\ op.name = "setDimensions")
    => LET A == pre.builder.mDesc.dimensions
           B == op.dimensions
       IN  /\ ret = NO_ERROR <=> ReferenceCombine(A, B) # {}
           /\ ret = NO_ERROR => ReferenceCombine(A, B) = {builder.mDesc.dimensions}
           /\ ret # NO_ERROR => (ret = BAD_DATA /\ builder = pre.builder)
           /\ B = A => (ret = NO_ERROR /\ builder.mDesc.dimensions = A)
           /\ (/\ Len(A) = Len(B)
               /\ \E i \in 1..Len(A) : A[i] # 0 /\ B[i] # 0 /\ A[i] # B[i])
              => ret = BAD_DATA
           /\ (A # <<>> /\ B # <<>> /\ Len(A) # Len(B)) => ret = BAD_DATA

C16_Witness ==
    /\ CombinesShape /\ op.name = "setDimensions"
    /\ pre.builder.mDesc.dimensions = <<2, 0>>
    /\ op.dimensions = <<2, 1>>
    /\ ret = NO_ERROR
    /\ builder.mDesc.dimensions = <<2, 1>>

SameOperandMetadata(a, b) ==
    /\ a.type = b.type /\ a.scale = b.scale
    /\ a.zeroPoint = b.zeroPoint /\ a.extraParams = b.extraParams

\* C17: in every state of a descriptor, whatever calls were accepted or
\* rejected, the operands of any two registered roles have the same type,
\* scale, zero point and extra parameters, their dimensions combine, and the
\* dimensions of each combine with the accumulated dimensions; the operand
\* the descriptor keeps is theirs.
C17_RolesAgree ==
    /\ \A r1 \in builder.mRoles, r2 \in builder.mRoles :
          /\ SameOperandMetadata(RoleOperand(r1), RoleOperand(r2))
          /\ has_value(combineDimensions(RoleOperand(r1).dimensions,
                                         RoleOperand(r2).dimensions))
    /\ \A r \in builder.mRoles :
          /\ has_value(combineDimensions(builder.mDesc.dimensions, RoleOperand(r).dimensions))
          /\ has_value(builder.mOperand)
          /\ SameOperandMetadata(RoleOperand(r), value(builder.mOperand))

C17_Witness ==
    /\ op.name = "addRole" /\ ret = BAD_DATA
    /\ Cardinality(builder.mRoles) = 2
    /\ \E r1 \in builder.mRoles, r2 \in builder.mRoles :
          RoleOperand(r1).dimensions # RoleOperand(r2).dimensions
    /\ OpKey \notin builder.mRoles
    /\ op.index < (IF op.ioType = INPUT THEN inputCount(op.compilation)
                   ELSE outputCount(op.compilation))
    /\ incompatibleOperand(builder.mOperand, RoleOperand(OpKey))

\* No shape of the client's passes validateInputDimensions on m.
RejectsEveryInput(m) ==
    \A dims \in InputDimensionArgs \cup {m.mUpdatedDimensions} :
        ~DeviceValidateInputDimensions(m, dims)

SumWithin(offset, length, size) ==
    LET lo == offset.lo + length.lo
        hi == offset.hi + length.hi + (lo \div Half)
    IN  hi < size.hi \/ (hi = size.hi /\ lo % Half <= size.lo)

\* C19: validate on a device-role validator succeeds iff the (compilation,
\* io type, index) of the use is in the role set fixed at allocation, offset
\* and length are 0 and a shape, when supplied, combines with the initial
\* dimensions and is empty for a scalar operand; a use without a compilation
\* is rejected; no step changes the role set or the initial dimensions of an
\* object.
C19_DeviceValidateChecksRoleWindowShape ==
    [][/\ (op'.name = "validate" /\ mems'[op'.dst].validator = "Device")
          => LET m == mems'[op'.dst]
                 key == <<op'.compilation, op'.ioType, op'.index>>
             IN  /\ ret' = "true"
                    <=> /\ key \in m.kCompilationRoles
                        /\ op'.offset = ToU32(0) /\ op'.length = ToU32(0)
                        /\ has_value(op'.type)
                           => /\ has_value(combineDimensions(value(op'.type),
                                                             m.kInitialDimensions))
                              /\ ~isTensorType(value(m.kOperand).type)
                                 => value(op'.type) = <<>>
                 /\ op'.compilation = "nullptr" => ret' = "false"
                 /\ \E b \in ValidateDescriptors :
                       /\ m.kCompilationRoles = b.mRoles
                       /\ m.kInitialDimensions = b.mDesc.dimensions
       /\ \A i \in 1..Len(mems) :
             /\ mems'[i].kCompilationRoles = mems[i].kCompilationRoles
             /\ mems'[i].kInitialDimensions = mems[i].kInitialDimensions]_vars

C19_Witness ==
    /\ op.name = "validate" /\ ret = "true"
    /\ mems[op.dst].validator = "Device"
    /\ OpKey \in mems[op.dst].kCompilationRoles
    /\ Cardinality(mems[op.dst].kCompilationRoles) = 2
    /\ op.type = Some(<<0, 4, 4, 3>>)
    /\ mems[op.dst].kInitialDimensions = <<2, 4, 4, 3>>

\* C20 as claimed: validate on a sized validator succeeds exactly when
\* offset + length, as a natural number, is at most the size and offset and
\* length are not both 0.
C20_SizedValidateWithinBounds ==
    (op.name = "validate" /\ mems[op.dst].validator = "Sized")
    => (ret = "true"
        <=> /\ SumWithin(op.offset, op.length, ToU32(mems[op.dst].kSize))
            /\ ~(op.offset = ToU32(0) /\ op.length = ToU32(0)))

\* C21: validating a use of a non-BLOB hardware buffer succeeds exactly when
\* the use belongs to a compilation (an execution input or output, not a
\* model constant) and both offset and length are zero.
C21_NonBlobValidateIffExecutionUseOfWholeBuffer ==
    (op.name = "validate" /\ pre.dst.validator = "NonBlob")
    => (ret = "true" <=> /\ op.compilation \in Compilations
                         /\ op.offset.hi = 0 /\ op.offset.lo = 0
                         /\ op.length.hi = 0 /\ op.length.lo = 0)

C21_Witness ==
    /\ op.name = "validate" /\ pre.dst.validator = "NonBlob"
    /\ op.compilation = "c2" /\ op.ioType = OUTPUT
    /\ op.offset = ToU32(0) /\ op.length = ToU32(0)
    /\ ret = "true"

\* The fields of an operand that updateMetadata compares.
OperandMismatch(a, b) ==
    \/ a.type # b.type
    \/ a.scale # b.scale
    \/ a.zeroPoint # b.zeroPoint
    \/ a.extraParams # b.extraParams

\* The last call copied from an initialized device-role source into another
\* device-role object whose fixed operand differs from the source's, or whose
\* initial dimensions do not combine with the source's resolved ones.
IncompatibleDeviceCopy ==
    /\ DistinctCopy
    /\ Src.validator = "Device" /\ Src.mInitialized
    /\ pre.dst.validator = "Device"
    /\ \/ OperandMismatch(value(Src.kOperand), value(pre.dst.kOperand))
       \/ ~has_value(combineDimensions(Src.mUpdatedDimensions, pre.dst.kInitialDimensions))

\* C22: when the source's metadata carries an operand that differs from the
\* destination's fixed operand in type, scale, zero point or extra
\* parameters, or dimensions that do not combine with the destination's,
\* updateMetadata fails and leaves the destination's resolved dimensions as
\* they were, and copy returns BAD_DATA without map, temporary allocation or
\* driver transfer.
C22_IncompatibleMetadataRejected ==
    IncompatibleDeviceCopy
    => /\ ret = BAD_DATA
       /\ ~aborted
       /\ Dst.mUpdatedDimensions = pre.dst.mUpdatedDimensions
       /\ CallNames \cap TransferCalls = {}
       /\ calls = <<Call("isInitialized", <<>>), Call("getMetadata", <<>>),
                    Call("updateMetadata", <<>>), Call("setInitialized", <<>>)>>

\* The source and the destination differ in the zero point only.
C22_Witness ==
    /\ IncompatibleDeviceCopy
    /\ value(Src.kOperand).type = value(pre.dst.kOperand).type
    /\ value(Src.kOperand).zeroPoint # value(pre.dst.kOperand).zeroPoint
    /\ Src.mUpdatedDimensions = pre.dst.kInitialDimensions
    /\ ret = BAD_DATA

\* The source and the destination have the same operand and shapes that do
\* not combine.
C22_WitnessDimensions ==
    /\ IncompatibleDeviceCopy
    /\ ~OperandMismatch(value(Src.kOperand), value(pre.dst.kOperand))
    /\ ret = BAD_DATA

IsUpdateMetadata == op.name = "updateMetadata"

\* The incoming operand is absent or agrees with the fixed operand of m.
OperandAgrees(m, metadata) ==
    \/ ~has_value(metadata.operand)
    \/ ~OperandMismatch(value(metadata.operand), value(m.kOperand))

\* The incoming dimensions are admissible for the operand of m and combine
\* with its initial dimensions.
DimensionsAgree(m, metadata) ==
    /\ metadata.dimensions = <<>> \/ isTensorType(value(m.kOperand).type)
    /\ has_value(combineDimensions(metadata.dimensions, m.kInitialDimensions))

\* The incoming logical size is zero or the size m expects.
SizeAgrees(m, metadata, expected) ==
    metadata.logicalSize = 0 \/ metadata.logicalSize = expected

\* C23 as claimed: every validator accepts incoming metadata whose logical
\* size is zero, and incoming metadata whose dimensions are empty, whatever
\* the other fields.
C23_ZeroSizeOrEmptyDimensionsAlwaysAccepted ==
    (IsUpdateMetadata /\ (op.metadata.logicalSize = 0 \/ op.metadata.dimensions = <<>>))
    => ret = "true"

\* C23 as amended: a zero logical size waives the size check and empty
\* dimensions waive the dimension check, and nothing else.  Metadata with
\* logical size zero is accepted by the sized and the non-BLOB validator, and
\* by a device-role validator iff its operand and dimensions agree with the
\* destination; metadata with empty dimensions is accepted by the non-BLOB
\* validator, by the sized validator iff its size is zero or the validator's
\* size, and by a device-role validator iff its operand agrees and its size
\* is zero or the size of the destination's initial dimensions.
C23_ZeroSizeOrEmptyDimensionsWaiveOwnCheck ==
    LET m == pre.dst
        metadata == op.metadata
    IN  /\ (IsUpdateMetadata /\ metadata.logicalSize = 0)
           => (ret = "true"
               <=> \/ m.validator # "Device"
                   \/ OperandAgrees(m, metadata) /\ DimensionsAgree(m, metadata))
        /\ (IsUpdateMetadata /\ metadata.dimensions = <<>>)
           => (ret = "true"
               <=> CASE m.validator = "Sized" -> SizeAgrees(m, metadata, m.kSize)
                     [] m.validator = "Device" ->
                           /\ OperandAgrees(m, metadata)
                           /\ SizeAgrees(m, metadata,
                                         getSizeOfData(value(m.kOperand).type,
                                                       m.kInitialDimensions))
                     [] OTHER -> TRUE)

\* Metadata of size zero with a conflicting operand is rejected by a
\* device-role validator.
C23_Witness ==
    /\ IsUpdateMetadata
    /\ pre.dst.validator = "Device"
    /\ op.metadata.logicalSize = 0 /\ op.metadata.dimensions = <<>>
    /\ ~OperandAgrees(pre.dst, op.metadata)
    /\ ret = "false"

\* Metadata with empty dimensions and another size is rejected by the sized
\* validator.
C23_WitnessSized ==
    /\ IsUpdateMetadata
    /\ pre.dst.validator = "Sized"
    /\ op.metadata.dimensions = <<>>
    /\ op.metadata.logicalSize \notin {0, pre.dst.kSize}
    /\ ret = "false"

\* The result codes a driver's answer to a transfer is converted into.
DriverResultCodes == {convertErrorStatusToResultCode(x) : x \in DriverReturns \ {"DEAD"}}

\* The transfer steps of the last call, in order.
TransferSteps == SelectSeq(calls, LAMBDA c : c.f \in TransferCalls)
LastTransferStep == TransferSteps[Len(TransferSteps)].f

C25_LiveRegisteredConsumersNotifiedOnce ==
    [][\A m \in destroyed' \ destroyed :
          \A b \in 1..Len(bursts) :
              bursts'[b].freed =
                  IF <<m, b>> \in registered /\ bursts[b].alive
                  THEN Append(bursts[b].freed, getKey(m))
                  ELSE bursts[b].freed]_vars

\* Thread t is reading or changing the registry of a memory object.
InUsedBy(t) == pc[t].at = "emplace"
InDestructor(t) == pc[t].at = "traverse"
HoldsMutex(t) == mMutex[pc[t].memory] = t

C27_AllocateLeavesFinishedDescriptor ==
    [][builder.mFinished
       => /\ builder' = builder
          /\ op'.name = "allocate" => pre'.builder = builder]_vars

\* The second successful allocate from one finished descriptor.
C27_Witness ==
    /\ op.name = "allocate" /\ ret = NO_ERROR
    /\ pre.builder.mFinished
    /\ pre.nmems = NumHost + 1 /\ Len(mems) = NumHost + 2
    /\ builder = pre.builder
    /\ mems[NumHost + 1].kCompilationRoles = builder.mRoles
    /\ mems[NumHost + 2].kCompilationRoles = builder.mRoles

\* A failed allocate from a finished descriptor.
C27_WitnessFailure ==
    /\ op.name = "allocate" /\ ret = OUT_OF_MEMORY
    /\ pre.builder.mFinished
    /\ Len(mems) = pre.nmems
    /\ builder = pre.builder

\* The last call was setDimensions on an unfinished descriptor.
SetOnUnfinished == op.name = "setDimensions" /\ ~pre.builder.mFinished

\* The descriptor b has recorded a scalar operand.
ScalarRecorded(b) == has_value(b.mOperand) /\ ~isTensorType(value(b.mOperand).type)

\* C28: setDimensions(dims) on an unfinished descriptor returns BAD_DATA and
\* changes nothing when dims is not empty and the recorded operand is a
\* scalar, or when dims does not combine with the accumulated dimensions;
\* otherwise it returns NO_ERROR and the accumulated dimensions become the
\* combination, everything else staying as it was; the same call repeated
\* right after a success succeeds again and changes nothing.
C28_SetDimensionsCombinesOrRejects ==
    [][/\ (op'.name = "setDimensions" /\ ~builder.mFinished)
          => LET combined == combineDimensions(builder.mDesc.dimensions, op'.dimensions)
             IN  IF \/ ScalarRecorded(builder) /\ op'.dimensions # <<>>
                    \/ ~has_value(combined)
                 THEN ret' = BAD_DATA /\ builder' = builder
                 ELSE /\ ret' = NO_ERROR
                      /\ builder' = [builder EXCEPT !.mDesc.dimensions = value(combined)]
       /\ (/\ SetOnUnfinished /\ ret = NO_ERROR
           /\ op'.name = "setDimensions" /\ op'.dimensions = op.dimensions)
          => (ret' = NO_ERROR /\ builder' = builder)]_vars

\* Dimensions offered to a descriptor of a scalar operand.
C28_Witness ==
    /\ SetOnUnfinished
    /\ ScalarRecorded(pre.builder)
    /\ op.dimensions = <<4>>
    /\ has_value(combineDimensions(pre.builder.mDesc.dimensions, op.dimensions))
    /\ ret = BAD_DATA
    /\ builder = pre.builder

\* Dimensions that resolve an unknown axis of the accumulated ones.
C28_WitnessCombined ==
    /\ SetOnUnfinished
    /\ pre.builder.mDesc.dimensions = <<0, 4, 4, 3>>
    /\ op.dimensions = <<1, 4, 4, 3>>
    /\ ret = NO_ERROR
    /\ builder.mDesc.dimensions = <<1, 4, 4, 3>>

\* The descriptor fd cannot be duplicated in the table.
CannotDuplicate(table, fd) ==
    \/ fd \notin FileDescriptors
    \/ table[fd] = "closed"
    \/ \A other \in FileDescriptors : table[other] # "closed"

\* C29: create-from-file-descriptor returns BAD_DATA with no object and
\* without duplicating when the size is 0 or the descriptor is negative; it
\* returns an error with no object when the duplication fails; on success it
\* returns NO_ERROR with one new object that has the sized validator of the
\* given size and owns a duplicate of the descriptor, which is a descriptor
\* other than the caller's; the caller's descriptor stays the caller's, and
\* its closing leaves the objects and their descriptors as they are.
C29_CreateFromFdDuplicatesAndSizes ==
    [][/\ op'.name = "createFromFd"
          => LET size == op'.size
                 fd == op'.fd
                 m == mems'[Len(mems')]
             IN  /\ (size = SizeT(0, 0) \/ fd < 0)
                    => (ret' = BAD_DATA /\ mems' = mems /\ fdTable' = fdTable)
                 /\ (size # SizeT(0, 0) /\ fd >= 0 /\ CannotDuplicate(fdTable, fd))
                    => (ret' # NO_ERROR /\ mems' = mems /\ fdTable' = fdTable)
                 /\ ret' # NO_ERROR => mems' = mems
                 /\ ret' = NO_ERROR
                    => /\ Len(mems') = Len(mems) + 1
                       /\ SubSeq(mems', 1, Len(mems)) = mems
                       /\ m.validator = "Sized"
                       /\ SizeT(0, m.kSize) = size
                       /\ has_value(m.handle)
                       /\ value(m.handle).fd # fd
                       /\ fdTable[value(m.handle).fd] = "closed"
                       /\ fdTable'[value(m.handle).fd] = "object"
                       /\ fdTable'[fd] = fdTable[fd]
       /\ op'.name = "close"
          => /\ mems' = mems
             /\ \A i \in 1..Len(mems) :
                   has_value(mems[i].handle)
                   => fdTable'[value(mems[i].handle).fd] = "object"]_vars

\* C30: create-from-hardware-buffer always returns NO_ERROR with one new
\* object; for the BLOB format the object has the sized validator of the
\* buffer's width and a backing of that many bytes, for any other format it
\* has the non-BLOB validator and a backing of 0 bytes, whatever the width
\* and height.
C30_HardwareBufferValidatorByFormat ==
    op.name = "createFromAHardwareBuffer"
    => LET m == mems[Len(mems)]
       IN  /\ ret = NO_ERROR
           /\ Len(mems) = pre.nmems + 1
           /\ IF op.desc.format = AHARDWAREBUFFER_FORMAT_BLOB
              THEN /\ m.validator = "Sized"
                   /\ m.kSize = op.desc.width
                   /\ m.hidlSize = op.desc.width
              ELSE /\ m.validator = "NonBlob"
                   /\ m.hidlSize = 0
           /\ ~m.hasIBuffer

\* A buffer of another format with a non-zero declared size.
C30_Witness ==
    /\ op.name = "createFromAHardwareBuffer"
    /\ op.desc.format # AHARDWAREBUFFER_FORMAT_BLOB
    /\ op.desc.width = 192 /\ op.desc.height = 4
    /\ ret = NO_ERROR
    /\ mems[Len(mems)].validator = "NonBlob"
    /\ mems[Len(mems)].hidlSize = 0

\* A BLOB buffer.
C30_WitnessBlob ==
    /\ op.name = "createFromAHardwareBuffer"
    /\ op.desc.format = AHARDWAREBUFFER_FORMAT_BLOB
    /\ op.desc.width = 192
    /\ ret = NO_ERROR
    /\ mems[Len(mems)].validator = "Sized"
    /\ mems[Len(mems)].kSize = 192


\* The shapes handed to the driver's copyFrom by the last copy.
CopyFromShapes == {calls[i].arg : i \in {j \in 1..Len(calls) : calls[j].f = "copyFrom"}}
\* The dimensions of the source's metadata: a device object reports its
\* resolved dimensions, a host object reports none.
SourceMetadataDimensions ==
    IF Src.validator = "Device" THEN Src.mUpdatedDimensions ELSE <<>>

\* C31 as claimed: whenever copy writes into a driver buffer, the shape
\* handed to the driver is the destination's resolved shape, for every kind
\* of source.
C31_DriverGetsDestinationShape ==
    DistinctCopy => \A shape \in CopyFromShapes : shape = Dst.mUpdatedDimensions

\* C31: whenever copy writes into a driver buffer, the shape handed to the
\* driver is the dimensions of the source's metadata: empty for a host
\* source, and for a device source its resolved dimensions, which equal the
\* destination's resolved dimensions after the metadata update.
C31_DriverGetsSourceMetadataShape ==
    DistinctCopy =>
        \A shape \in CopyFromShapes :
            /\ shape = SourceMetadataDimensions
            /\ Src.validator = "Device" => shape = Dst.mUpdatedDimensions
            /\ Src.validator # "Device" => shape = <<>>

\* C31 witness: a sized host source has been written into a driver buffer
\* whose resolved shape is not empty.
C31_Witness ==
    /\ DistinctCopy /\ Src.validator = "Sized" /\ CopyFromShapes # {}
    /\ Dst.mUpdatedDimensions # <<>>
\* C31 witness: a driver buffer has been written into another one.
C31_WitnessOpaque ==
    /\ DistinctCopy /\ Src.validator = "Device" /\ CopyFromShapes # {}
    /\ "copyTo" \in CallNames

\* The last copy was between two driver buffers and reached the transfer.
IsOpaqueCopy ==
    /\ DistinctCopy /\ Src.hasIBuffer /\ Dst.hasIBuffer
    /\ "allocateSharedMemory" \in CallNames
\* The names of the transfer steps of the last copy, in order.
TransferStepNames == [i \in 1..Len(TransferSteps) |-> TransferSteps[i].f]
\* The logical size of the source of the last copy.
SourceLogicalSize == getSizeOfData(value(Src.kOperand).type, Src.mUpdatedDimensions)

\* C32: a copy between two driver buffers allocates a temporary host segment
\* of the source's logical size, then transfers source to segment, then
\* segment to destination.  A failed allocation ends it with OUT_OF_MEMORY
\* and no transfer; a failed first transfer ends it with that transfer's
\* error and no second transfer.
C32_OpaqueCopyStepsInOrder ==
    IsOpaqueCopy =>
        /\ TransferSteps[1] = Call("allocateSharedMemory", <<SourceLogicalSize>>)
        /\ IF ~op.env.alloc
           THEN TransferStepNames = <<"allocateSharedMemory">> /\ ret = OUT_OF_MEMORY
           ELSE IF op.env.copyTo # "NONE"
           THEN /\ TransferStepNames = <<"allocateSharedMemory", "copyTo">>
                /\ ret = (IF op.env.copyTo = "DEVICE_UNAVAILABLE"
                          THEN UNAVAILABLE_DEVICE ELSE OP_FAILED)
           ELSE /\ TransferStepNames = <<"allocateSharedMemory", "copyTo", "copyFrom">>
                /\ ret = (CASE op.env.copyFrom = "NONE" -> NO_ERROR
                            [] op.env.copyFrom = "DEVICE_UNAVAILABLE" -> UNAVAILABLE_DEVICE
                            [] OTHER -> OP_FAILED)

\* C32 witness: the first transfer of a copy between two driver buffers
\* failed.
C32_Witness ==
    IsOpaqueCopy /\ op.env.alloc /\ op.env.copyTo = "DEVICE_UNAVAILABLE"
\* C32 witness: the temporary segment could not be allocated.
C32_WitnessAllocation == IsOpaqueCopy /\ ~op.env.alloc
\* C32 witness: all three steps ran and the copy succeeded.
C32_WitnessSuccess == IsOpaqueCopy /\ ret = NO_ERROR

\* The last copy was between two host segments and passed the source check
\* and the metadata update, so that copyHidlMemories ran.
IsHostCopy ==
    /\ DistinctCopy /\ Src.hidlValid /\ Dst.hidlValid
    /\ ~(Src.hasIBuffer /\ Dst.hasIBuffer)
    /\ isInitialized(Src)
    /\ updateMetadata(pre.dst, getMetadata(Src)).ok

C33_WitnessCopied ==
    /\ IsHostCopy /\ ret = NO_ERROR /\ Src.validator = "Sized"
    /\ Dst.validator = "Device" /\ Dst.mUpdatedDimensions # <<>>
\* C33 witness: equal sizes, and a side could not be mapped.
C33_WitnessUnmappable == IsHostCopy /\ ret = UNMAPPABLE

\* The memory objects that carry a device validator.
DeviceObjects == {i \in 1..Len(mems) : mems[i].validator = "Device"}
\* The last call was a successful copy into a distinct object with a device
\* validator.
CopiedIntoDevice == DistinctCopy /\ ret = NO_ERROR /\ Dst.validator = "Device"
\* The last call was allocate on a finished descriptor whose dimensions
\* leave the rank or an axis unspecified.
AllocateUnspecified ==
    /\ op.name = "allocate" /\ pre.builder.mFinished
    /\ UnknownDimensions(pre.builder.mDesc.dimensions)
    /\ isTensorType(value(pre.builder.mOperand).type)
\* After a successful copy the destination's resolved dimensions are the
\* source's metadata dimensions combined with the destination's initial ones.
ResolvedIsCombined ==
    CopiedIntoDevice =>
        Some(Dst.mUpdatedDimensions) =
            combineDimensions(SourceMetadataDimensions, Dst.kInitialDimensions)

C34_WitnessHost == CopiedIntoDevice /\ Src.validator = "Sized"
\* C34 witness: allocation from a descriptor with an unspecified axis was
\* refused.
C34_WitnessRefused == AllocateUnspecified /\ ret = OP_FAILED

\* The last call was an addRole that returned an error.
AddRoleFailed == op.name = "addRole" /\ ret # NO_ERROR

\* C35: an addRole call that returns an error, for whatever reason, leaves
\* the role set, the input and output BufferRole lists, the prepared-model
\* list, the operand signature, the accumulated dimensions and every other
\* field of the descriptor as they were.
C35_FailedAddRoleChangesNothing ==
    AddRoleFailed =>
        /\ builder.mRoles = pre.builder.mRoles
        /\ builder.mDesc.inputRoles = pre.builder.mDesc.inputRoles
        /\ builder.mDesc.outputRoles = pre.builder.mDesc.outputRoles
        /\ builder.mDesc.preparedModels = pre.builder.mDesc.preparedModels
        /\ builder.mOperand = pre.builder.mOperand
        /\ builder.mDesc.dimensions = pre.builder.mDesc.dimensions
        /\ builder = pre.builder

\* C35 witness: an addRole that passed every check but the last one, on the
\* frequency, was rejected on a descriptor that already has a role.
C35_Witness ==
    /\ AddRoleFailed /\ ~builder.mFinished /\ builder.mRoles # {}
    /\ OpKey \notin builder.mRoles
    /\ OtherwiseValid(builder, op.compilation, op.ioType, op.index)
    /\ ~FrequencyInRange(op.freq)
\* C35 witness: a scalar role was rejected because dimensions had been set.
C35_WitnessScalar ==
    /\ AddRoleFailed /\ ~builder.mFinished /\ OpKey \notin builder.mRoles
    /\ op.index < (IF op.ioType = INPUT THEN inputCount(op.compilation)
                   ELSE outputCount(op.compilation))
    /\ ~isTensorType(RoleOperand(OpKey).type)
    /\ builder.mDesc.dimensions # <<>>
\* C35 witness: a role of a different operand signature was rejected.
C35_WitnessOperand ==
    /\ AddRoleFailed /\ ~builder.mFinished /\ OpKey \notin builder.mRoles
    /\ op.index < (IF op.ioType = INPUT THEN inputCount(op.compilation)
                   ELSE outputCount(op.compilation))
    /\ incompatibleOperand(builder.mOperand, RoleOperand(OpKey))
\* C35 witness: an index out of range was rejected on a descriptor with a
\* role.
C35_WitnessIndex ==
    /\ AddRoleFailed /\ ~builder.mFinished /\ builder.mRoles # {}
    /\ op.index >= (IF op.ioType = INPUT THEN inputCount(op.compilation)
                    ELSE outputCount(op.compilation))

\* The last call was a copy that invoked getMetadata on its source.
MetadataRead == op.name = "copy" /\ "getMetadata" \in CallNames

\* C36: in any sequence of allocate and copy calls the assertion in
\* getMetadata never fires: getMetadata is invoked only on a source that
\* reports initialized, and a device object that is not initialized is
\* turned away with BAD_DATA before its metadata is read.
C36_GetMetadataOnlyOnInitialized ==
    /\ ~aborted
    /\ MetadataRead => (Src.validator = "Device" => Src.mInitialized)
    /\ (/\ op.name = "copy" /\ op.src # op.dst
        /\ Src.validator = "Device" /\ ~Src.mInitialized)
       => /\ ret = BAD_DATA
          /\ calls = <<Call("isInitialized", <<>>), Call("setInitialized", <<>>)>>

\* C36 witness: a copy from a device object that was never written was
\* turned away.
C36_Witness ==
    /\ op.name = "copy" /\ op.src # op.dst
    /\ Src.validator = "Device" /\ ~Src.mInitialized /\ ret = BAD_DATA
\* C36 witness: the metadata of an initialized device object was read.
C36_WitnessRead == MetadataRead /\ Src.validator = "Device" /\ Src.mInitialized
\* C36 witness: an uninitialized device object was turned away as a source
\* while another device object is initialized.
C36_WitnessCleared ==
    /\ C36_Witness
    /\ \E i \in 1..Len(mems) : i # op.src /\ mems[i].validator = "Device" /\ mems[i].mInitialized

\* The threads inside copy that have checked their source and are about to
\* read its metadata.
AboutToRead == {t \in Threads : pc[t].at = "getMetadata"}
\* The last call returned was a failed copy into a distinct device object.
FailedCopyIntoDevice ==
    /\ op.name = "copy" /\ op.src # op.dst /\ ret # NO_ERROR
    /\ mems[op.dst].validator = "Device"

\* C37 as claimed: when threads copy concurrently, a source's initialized
\* check and its metadata read are not separated by another thread clearing
\* the flag: no thread that passed the check finds its source
\* uninitialized, the assertion in getMetadata never fires, and a device
\* object is uninitialized when a failing copy into it returns.
C37_CheckAndReadNotSeparated ==
    /\ ~aborted
    /\ \A t \in AboutToRead : isInitialized(mems[pc[t].src])
    /\ (FailedCopyIntoDevice /\ \A t \in Threads : pc[t] = Idle)
          => ~mems[op.dst].mInitialized

\* The last call was finish on an unfinished descriptor holding a role.
FinishWithRoles ==
    op.name = "finish" /\ ~pre.builder.mFinished /\ pre.builder.mRoles # {}

\* C38 as claimed: finish on an unfinished descriptor with at least one role
\* returns NO_ERROR and marks the descriptor finished; the assertion that
\* allocator selection found a device never fires, also when every role
\* expanded to zero prepared-model steps.
C38_FinishWithRolesSucceeds ==
    FinishWithRoles => ~aborted /\ ret = NO_ERROR /\ builder.mFinished

\* The last call was addRole for a role whose operand is a scalar.
AddScalarRole ==
    /\ op.name = "addRole"
    /\ op.index < (IF op.ioType = INPUT THEN inputCount(op.compilation)
                   ELSE outputCount(op.compilation))
    /\ ~isTensorType(RoleOperand(OpKey).type)

\* C39: whenever the recorded operand is a scalar the accumulated dimensions
\* are empty, in whatever order addRole and setDimensions were called: a
\* scalar role is rejected once non-empty dimensions are set, and non-empty
\* dimensions are rejected once a scalar role is recorded.
C39_ScalarHasNoDimensions ==
    /\ ScalarRecorded(builder) => builder.mDesc.dimensions = <<>>
    /\ (AddScalarRole /\ pre.builder.mDesc.dimensions # <<>>)
          => ret \in {BAD_DATA, BAD_STATE} /\ builder = pre.builder
    /\ (/\ op.name = "setDimensions" /\ op.dimensions # <<>>
        /\ ScalarRecorded(pre.builder))
          => ret \in {BAD_DATA, BAD_STATE} /\ builder = pre.builder

\* C39 witness: a scalar role was rejected on an unfinished descriptor whose
\* dimensions had been set.
C39_Witness ==
    /\ AddScalarRole /\ ~builder.mFinished /\ builder.mDesc.dimensions # <<>>
    /\ ret = BAD_DATA
\* C39 witness: non-empty dimensions were rejected on an unfinished
\* descriptor holding a scalar role.
C39_WitnessDimensions ==
    /\ op.name = "setDimensions" /\ op.dimensions # <<>> /\ ~builder.mFinished
    /\ ScalarRecorded(builder) /\ ret = BAD_DATA
=============================================================================
